---- MODULE Spec2Model ----
(***************************************************************************)
(* A model of the leaderboard service: the Redis sorted-set index          *)
(* (internal/redis/leaderboard.go), the PostgreSQL repository              *)
(* (internal/postgres/repository.go), the service layer that writes both   *)
(* (service.LeaderboardService), the WebSocket hub and its clients         *)
(* (internal/websocket) and the sync worker (worker.SyncWorker).           *)
(*                                                                         *)
(* Scores are int64 in Go and float64 in Redis; float64(int64) is exact    *)
(* for |score| <= 2^53.  The score values of the model are all inside that *)
(* range, where the conversions in SetScore / GetTopN change nothing.      *)
(***************************************************************************)
EXTENDS Integers, Sequences, FiniteSets, Bags, TLC

(***************************************************************************)
(* Bounds of the model.                                                    *)
(***************************************************************************)
\* submit calls issued in one behaviour
MaxSubmits == 2

\* leaderboard ids, player ids (ordered as their strings are), request tasks
LBIds == {1, 2}
Players == {1, 2, 3}
Procs == {1, 2}
\* the players and scores the submit calls of the model use
SubmitPlayers == {1, 2}
Scores == {-1, 1, 2}

\* WebSocket connections
Clients == {1, 2}
\* broadcasts posted to the hub, and inbound client messages read, in one behaviour
MaxBroadcasts == 1
MaxInbound == 1

SortOrders == {"desc", "asc"}
\* "other" stands for any update_mode string the switch does not name
UpdateModes == {"replace", "increment", "best", "other"}
Configs == [sort_order : SortOrders, update_mode : UpdateModes]

(***************************************************************************)
(* Maps with a key set that changes (a Redis key space, a table, a Go map) *)
(* are functions; a key is present iff it is in the DOMAIN.                *)
(***************************************************************************)
EmptyMap == [x \in {} |-> 0]
Put(f, k, v) == [x \in (DOMAIN f) \cup {k} |-> IF x = k THEN v ELSE f[x]]
Del(f, k) == [x \in (DOMAIN f) \ {k} |-> f[x]]
Maps(K, V) == UNION {[D -> V] : D \in SUBSET K}

VARIABLES
    leaderboards,   \* postgres table leaderboards: id -> config
    player_scores,  \* postgres table player_scores: id -> (player -> score)
    score_events,   \* postgres table score_events, in insertion order
    zset,           \* redis sorted sets leaderboard:<id>:realtime: id -> (player -> score)
    meta,           \* redis hashes leaderboard:<id>:meta: id -> config
    rq,             \* the request tasks: position and locals of each
    nsub,           \* number of submit calls issued so far
    zset0,          \* the sorted sets as they were initially
    accepted,       \* the bag of submissions whose SubmitScore has returned nil
    reply,          \* what the last read request returned
    allClients,     \* Hub.allClients
    clients,        \* Hub.clients: leaderboard id -> set of clients
    broadcast,      \* channel Hub.broadcast
    subscribe,      \* channel Hub.subscribe
    unsubscribe,    \* channel Hub.unsubscribe
    send,           \* channel Client.send of each client
    sendClosed,     \* whether close(client.send) has run
    hubRunning,     \* Hub.Run has not returned
    hubCancelled,   \* Hub.ctx is done
    panicked,       \* a goroutine has panicked: the process is gone
    cl,             \* readPump and writePump of each client: position and locals
    ninbound,       \* number of inbound client messages read so far
    nextId,         \* the number the next posted broadcast gets
    offered,        \* per leaderboard: calls of BroadcastLeaderboardUpdate
    processed,      \* ids of the broadcasts Hub.Run has taken, in that order
    delivered,      \* per client: the messages written to its connection, in order
    sw,             \* the startup recovery (SyncAllFromDatabase): position and locals
    returned,       \* per request task: what its last SubmitScore call returned
    adm,            \* the administrative request tasks: position, locals, response
    nadm,           \* number of administrative and read calls issued so far
    pre,            \* per administrative task: the stores as they were at its call
    tc,             \* the sync worker (SyncWorker.run): position and locals
    batch,          \* per request task: its SubmitScoreBatch call
    kc,             \* the Kafka consumer: one partition claim and its ConsumeClaim
    wk,             \* the SyncWorker: its fields, its run goroutines, its callers
    main            \* func main: its position, the HTTP server, what it has closed

storeVars == <<leaderboards, player_scores, score_events, zset, meta>>
engineVars == <<rq, nsub, zset0, accepted, returned>>
readVars == <<reply>>
hubVars == <<allClients, clients, broadcast, subscribe, unsubscribe, send, sendClosed,
             hubRunning, hubCancelled, panicked, cl, ninbound, nextId, offered,
             processed, delivered>>
syncVars == <<sw>>
opsVars == <<adm, nadm, pre, tc, batch, kc, wk, main>>

vars == <<storeVars, engineVars, readVars, hubVars, syncVars, opsVars>>

(***************************************************************************)
(* Redis commands on one sorted set z (player -> score).                   *)
(***************************************************************************)
\* ZADD key score member: add or overwrite
ZAddAlone(z, member, score) == Put(EmptyMap, member, score)

ZAdd(z, member, score) == Put(z, member, score)

ZIncrByOverwrite(z, member, delta) == Put(z, member, delta)

ZIncrByNoCreate(z, member, delta) ==
    IF member \in DOMAIN z THEN Put(z, member, z[member] + delta) ELSE z

\* ZINCRBY key delta member: add delta, the member starting at 0 when absent
ZIncrBy(z, member, delta) ==
    Put(z, member, (IF member \in DOMAIN z THEN z[member] ELSE 0) + delta)

ZRemKeepsMember(z, member) == z

\* ZREM key member: the member is removed; an absent member is no error
ZRem(z, member) == Del(z, member)

\* ZSCORE key member: <<score>>, or <<>> for redis.Nil
ZScore(z, member) == IF member \in DOMAIN z THEN <<z[member]>> ELSE <<>>

(***************************************************************************)
(* SetScoreIfBetter's comparison.                                          *)
(***************************************************************************)
IsBetterIgnoringOrder(score, currentScore, higherIsBetter) == score > currentScore

IsBetter(score, currentScore, higherIsBetter) ==
    \/ higherIsBetter /\ score > currentScore
    \/ ~higherIsBetter /\ score < currentScore

HigherIsBetter(lbConfig) == lbConfig.sort_order = "desc"

(***************************************************************************)
(* The request tasks.  SubmitScore is: GetLeaderboard, the write chosen by *)
(* update_mode (SetScoreIfBetter being a ZSCORE and then a ZADD, two round *)
(* trips to Redis), RecordEvent, return.                                   *)
(***************************************************************************)
NoSubmission == [lb |-> 0, player |-> 0, score |-> 0]

(***************************************************************************)
(* Go error values.  An error is the chain of its messages, outermost      *)
(* first: errors.New(m) is <<m>>, fmt.Errorf("prefix: %w", err) puts the   *)
(* prefix in front, and nil is the empty chain.                            *)
(***************************************************************************)
Nil == <<>>
ErrPlayerNotFoundInLeaderboard == <<"player not found in leaderboard">>
ErrLeaderboardNotFound == <<"leaderboard not found">>
ErrLeaderboardExists == <<"leaderboard already exists">>
ErrInvalidLeaderboard == <<"invalid leaderboard configuration">>
ErrInvalidRequest == <<"invalid request">>
ErrInternalError == <<"internal server error">>
\* an error of the PostgreSQL or Redis driver
ErrDriver == <<"driver error">>
\* the error of an INSERT of a row whose primary key the table has already
ErrUniqueViolation == <<"duplicate key value violates unique constraint">>

WrapWithoutChain(prefix, err) == <<prefix>>

\* fmt.Errorf(prefix + ": %w", err)
Wrap(prefix, err) == <<prefix>> \o err

\* errors.Is(err, target) for a sentinel target: err or an error it wraps
ErrorsIs(err, target) ==
    \E i \in 1..Len(err) : SubSeq(err, i, Len(err)) = target

\* err.Error(): the messages joined by ": "
RECURSIVE ErrorText(_)
ErrorText(err) ==
    IF Len(err) = 0 THEN <<>>
    ELSE IF Len(err) = 1 THEN err
    ELSE <<err[1], ": ">> \o ErrorText(Tail(err))

\* domain.IsNotFoundError
IsNotFoundError(err) ==
    ErrorsIs(err, ErrPlayerNotFoundInLeaderboard) \/ ErrorsIs(err, ErrLeaderboardNotFound)

\* what a SubmitScore call returned: nothing yet, or its error value
NoReturn == [done |-> FALSE, err |-> Nil]
Return(err) == [done |-> TRUE, err |-> err]
NoConfig == [sort_order |-> "", update_mode |-> ""]
Idle == [pc |-> "idle", sub |-> NoSubmission, lbConfig |-> NoConfig, currentScore |-> <<>>]

Submissions == [lb : LBIds, player : SubmitPlayers, score : Scores]

\* a request arrives: SubmitScore(ctx, submission) is called
SubmitScoreCall(self, submission) ==
    /\ rq[self].pc = "idle"
    /\ nsub < MaxSubmits
    /\ rq' = [rq EXCEPT ![self] = [Idle EXCEPT !.pc = "GetLeaderboard", !.sub = submission]]
    /\ nsub' = nsub + 1
    /\ returned' = [returned EXCEPT ![self] = NoReturn]
    /\ UNCHANGED <<storeVars, zset0, accepted>>
    /\ UNCHANGED <<readVars, hubVars, syncVars, opsVars>>

\* s.postgres.GetLeaderboard: a missing row is ErrLeaderboardNotFound, which
\* SubmitScore returns wrapped
SubmitScoreGetLeaderboard(self) ==
    /\ rq[self].pc = "GetLeaderboard"
    /\ IF rq[self].sub.lb \in DOMAIN leaderboards
       THEN /\ rq' = [rq EXCEPT ![self].pc = "apply",
                                ![self].lbConfig = leaderboards[rq[self].sub.lb]]
            /\ UNCHANGED returned
       ELSE /\ rq' = [rq EXCEPT ![self] = Idle]
            /\ returned' = [returned EXCEPT ![self] =
                    Return(Wrap("getting leaderboard config", ErrLeaderboardNotFound))]
    /\ UNCHANGED <<storeVars, nsub, zset0, accepted>>
    /\ UNCHANGED <<readVars, hubVars, syncVars, opsVars>>

\* case UpdateModeReplace, and default: s.redis.SetScore
SubmitScoreReplace(self) ==
    LET sub == rq[self].sub IN
    /\ rq[self].pc = "apply"
    /\ rq[self].lbConfig.update_mode \in {"replace", "other"}
    /\ zset' = [zset EXCEPT ![sub.lb] = ZAdd(@, sub.player, sub.score)]
    /\ rq' = [rq EXCEPT ![self].pc = "RecordEvent"]
    /\ UNCHANGED <<leaderboards, player_scores, score_events, meta, nsub, zset0, accepted, returned>>
    /\ UNCHANGED <<readVars, hubVars, syncVars, opsVars>>

\* case UpdateModeIncrement: s.redis.IncrementScore
SubmitScoreIncrement(self) ==
    LET sub == rq[self].sub IN
    /\ rq[self].pc = "apply"
    /\ rq[self].lbConfig.update_mode = "increment"
    /\ zset' = [zset EXCEPT ![sub.lb] = ZIncrBy(@, sub.player, sub.score)]
    /\ rq' = [rq EXCEPT ![self].pc = "RecordEvent"]
    /\ UNCHANGED <<leaderboards, player_scores, score_events, meta, nsub, zset0, accepted, returned>>
    /\ UNCHANGED <<readVars, hubVars, syncVars, opsVars>>

\* case UpdateModeBest: SetScoreIfBetter reads the current score (ZSCORE)
SubmitScoreBestRead(self) ==
    LET sub == rq[self].sub IN
    /\ rq[self].pc = "apply"
    /\ rq[self].lbConfig.update_mode = "best"
    /\ rq' = [rq EXCEPT ![self].pc = "SetScoreIfBetter",
                        ![self].currentScore = ZScore(zset[sub.lb], sub.player)]
    /\ UNCHANGED <<storeVars, nsub, zset0, accepted, returned>>
    /\ UNCHANGED <<readVars, hubVars, syncVars, opsVars>>

\* SetScoreIfBetter goes on with what it read: SetScore when the player was
\* absent or the submitted score is better, nothing otherwise
SubmitScoreBestWrite(self) ==
    LET sub == rq[self].sub
        cur == rq[self].currentScore
        write == \/ cur = <<>>
                 \/ /\ cur # <<>>
                    /\ IsBetter(sub.score, cur[1], HigherIsBetter(rq[self].lbConfig))
    IN
    /\ rq[self].pc = "SetScoreIfBetter"
    /\ zset' = IF write THEN [zset EXCEPT ![sub.lb] = ZAdd(@, sub.player, sub.score)]
                        ELSE zset
    /\ rq' = [rq EXCEPT ![self].pc = "RecordEvent"]
    /\ UNCHANGED <<leaderboards, player_scores, score_events, meta, nsub, zset0, accepted, returned>>
    /\ UNCHANGED <<readVars, hubVars, syncVars, opsVars>>

EventOfStoredScore(sub) ==
    [lb |-> sub.lb, player |-> sub.player,
     score |-> IF sub.player \in DOMAIN zset[sub.lb] THEN zset[sub.lb][sub.player] ELSE 0,
     event_type |-> "submit"]

\* the ScoreEvent SubmitScore builds from the submission
EventOf(sub) ==
    [lb |-> sub.lb, player |-> sub.player, score |-> sub.score, event_type |-> "submit"]

\* s.postgres.RecordEvent, whose failure is logged only; then return nil
SubmitScoreRecordEvent(self) ==
    LET sub == rq[self].sub IN
    /\ rq[self].pc = "RecordEvent"
    /\ \E failed \in BOOLEAN :
          score_events' = IF failed THEN score_events
                          ELSE Append(score_events, EventOf(sub))
    /\ accepted' = accepted (+) SetToBag({sub})
    /\ rq' = [rq EXCEPT ![self] = Idle]
    /\ returned' = [returned EXCEPT ![self] = Return(Nil)]
    /\ UNCHANGED <<leaderboards, player_scores, zset, meta, nsub, zset0>>
    /\ UNCHANGED <<readVars, hubVars, syncVars, opsVars>>

SubmitStep(self) ==
    \/ \E submission \in Submissions : SubmitScoreCall(self, submission)
    \/ SubmitScoreGetLeaderboard(self)
    \/ SubmitScoreReplace(self)
    \/ SubmitScoreIncrement(self)
    \/ SubmitScoreBestRead(self)
    \/ SubmitScoreBestWrite(self)
    \/ SubmitScoreRecordEvent(self)

(***************************************************************************)
(* The write path with concurrent requests: leaderboard 1 exists with any  *)
(* configuration, leaderboard 2 does not; player 1 of leaderboard 1 may    *)
(* hold a score already.                                                   *)
(***************************************************************************)
NoScores == [lb \in LBIds |-> EmptyMap]

\* the message.LeaderboardID of a message that names no leaderboard ("")
EmptyId == 0
Topics == LBIds \cup {EmptyId}
\* the leaderboard ids inbound client messages carry, the leaderboards that
\* broadcasts are posted for, and the connections that send inbound messages
\* or fail (the other connections only listen)
HubTopics == {1, EmptyId}
HubLBs == {1}
Talkers == {2}

NoReply == [op |-> "none", lb |-> 0, player |-> 0, arg |-> 0, err |-> "", entries |-> <<>>]
NoMessage == [type |-> "", lb |-> 0, id |-> 0]
NewConn == [rp |-> "new", wp |-> "none", ack |-> NoMessage, frame |-> <<>>]
SyncIdle == [pc |-> "idle", todo |-> <<>>, scores |-> EmptyMap, failed |-> FALSE]

\* the administrative tasks; task 1 issues the calls of the sequential runs
Admins == {1, 2}
NoResponse == [status |-> 0, error |-> <<>>, entries |-> <<>>, config |-> NoConfig]
AdmIdle == [pc |-> "idle", op |-> "", lb |-> 0, player |-> 0, config |-> NoConfig,
            resp |-> NoResponse, err |-> Nil]
TcIdle == [pc |-> "idle", todo |-> <<>>, lb |-> 0, scores |-> EmptyMap, cycles |-> 0,
           listed |-> <<>>, calls |-> <<>>, errors |-> {}]
BatchIdle == [pc |-> "idle", scores |-> <<>>, i |-> 0, errs |-> <<>>, ret |-> NoReturn,
              status |-> 0]

EngineIdle ==
    /\ rq = [p \in Procs |-> Idle]
    /\ nsub = 0
    /\ zset0 = zset
    /\ accepted = EmptyBag
    /\ returned = [p \in Procs |-> NoReturn]

\* NewConsumer: the ready channel is channel 0, Start is not called yet
KcNew == [pc |-> "idle", waits |-> -1, ready |-> 0, closed |-> {}, loop |-> "none",
          handler |-> -1, attempts |-> 0, setups |-> 0, cancelled |-> FALSE]

\* ConsumeClaim has just been called for a partition without messages
KcIdle == [pc |-> "select", messages |-> <<>>, noffset |-> 0, batch |-> <<>>, case |-> "",
           then |-> "", consumed |-> <<>>, marked |-> <<>>, calls |-> <<>>,
           start |-> KcNew]

\* no administrative call issued, the sync worker between two ticks, the Kafka
\* consumer waiting for messages
\* NewSyncWorker: not running, both channels open, no run goroutine; the
\* tasks that call Start and Stop are idle
Callers == {1, 2}
WkNew == [running |-> FALSE, stopCh |-> "open", doneCh |-> "open", loops |-> 0,
          panic |-> FALSE, call |-> [c \in Callers |-> "idle"], ncalls |-> 0,
          stopped |-> 0, during |-> FALSE]
\* main has started everything and waits for the signal
MainServing == [pc |-> "serving", accepting |-> TRUE, kafka |-> FALSE, closed |-> <<>>]

OpsIdle ==
    /\ adm = [a \in Admins |-> AdmIdle]
    /\ nadm = 0
    /\ pre = [a \in Admins |-> <<>>]
    /\ tc = TcIdle
    /\ batch = [p \in Procs |-> BatchIdle]
    /\ kc = KcIdle
    /\ wk = WkNew
    /\ main = MainServing

\* NewHub, with Run started and no connection accepted yet
HubFresh ==
    /\ allClients = {}
    /\ clients = EmptyMap
    /\ broadcast = <<>>
    /\ subscribe = <<>>
    /\ unsubscribe = <<>>
    /\ send = [c \in Clients |-> <<>>]
    /\ sendClosed = [c \in Clients |-> FALSE]
    /\ hubRunning = TRUE
    /\ hubCancelled = FALSE
    /\ panicked = FALSE
    /\ cl = [c \in Clients |-> NewConn]
    /\ ninbound = 0
    /\ nextId = 1
    /\ offered = [t \in Topics |-> 0]
    /\ processed = <<>>
    /\ delivered = [c \in Clients |-> <<>>]

Init ==
    /\ \E cfg \in Configs : leaderboards = Put(EmptyMap, 1, cfg)
    /\ player_scores = NoScores
    /\ score_events = <<>>
    /\ \E z \in Maps({1}, Scores) : zset = [NoScores EXCEPT ![1] = z]
    /\ meta = leaderboards
    /\ EngineIdle
    /\ reply = NoReply
    /\ HubFresh
    /\ sw = SyncIdle
    /\ OpsIdle

Next == \E self \in Procs : SubmitStep(self)

Spec == Init /\ [][Next]_vars

\* the same write path with one caller issuing its calls one after another
NextSeq == SubmitStep(1)

SpecSeq == Init /\ [][NextSeq]_vars

(***************************************************************************)
(* What the claims speak of.                                               *)
(***************************************************************************)
SetMax(S) == CHOOSE x \in S : \A y \in S : y <= x
SetMin(S) == CHOOSE x \in S : \A y \in S : x <= y

\* the score that is best under the leaderboard's sort_order
BestOf(S, lbConfig) == IF lbConfig.sort_order = "desc" THEN SetMax(S) ELSE SetMin(S)

AcceptedCount(lb, p, s) == CopiesIn([lb |-> lb, player |-> p, score |-> s], accepted)
AcceptedScores(lb, p) == {s \in Scores : AcceptedCount(lb, p, s) > 0}

RECURSIVE WeightedSum(_, _, _)
WeightedSum(lb, p, S) ==
    IF S = {} THEN 0
    ELSE LET s == CHOOSE x \in S : TRUE
         IN s * AcceptedCount(lb, p, s) + WeightedSum(lb, p, S \ {s})
AcceptedSum(lb, p) == WeightedSum(lb, p, Scores)
RECURSIVE CountOver(_, _, _)
CountOver(lb, p, S) ==
    IF S = {} THEN 0
    ELSE LET s == CHOOSE x \in S : TRUE
         IN AcceptedCount(lb, p, s) + CountOver(lb, p, S \ {s})
AcceptedFor(lb, p) == CountOver(lb, p, Scores)

PriorScores(lb, p) == IF p \in DOMAIN zset0[lb] THEN {zset0[lb][p]} ELSE {}
PriorOrZero(lb, p) == IF p \in DOMAIN zset0[lb] THEN zset0[lb][p] ELSE 0

\* a SubmitScore call for (lb, p) has been issued and has not returned
InFlight(lb, p) ==
    \E self \in Procs : /\ rq[self].pc # "idle"
                        /\ rq[self].sub.lb = lb
                        /\ rq[self].sub.player = p

ModeIs(lb, mode) == lb \in DOMAIN leaderboards /\ leaderboards[lb].update_mode = mode

\* C1: set_if_better is atomic per (leaderboard, player): whenever the
\* concurrent best-mode submits for a key have all returned, the score is what
\* applying them one after another gives, which is the best (the maximum on a
\* descending leaderboard) of the prior score and all submitted scores.
C1_SetIfBetterLinearizable ==
    \A lb \in LBIds, p \in Players :
        (ModeIs(lb, "best") /\ ~InFlight(lb, p)) =>
            LET cand == PriorScores(lb, p) \cup AcceptedScores(lb, p) IN
            cand # {} => /\ p \in DOMAIN zset[lb]
                         /\ zset[lb][p] = BestOf(cand, leaderboards[lb])

\* C2: on a best-mode leaderboard, after sequentially issued submits the score
\* of a player is the maximum (descending) or minimum (ascending) of the prior
\* and the submitted scores: a submission that is not strictly better changes
\* nothing, and the first submission for an absent player creates the entry.
C2_BestModeSequential ==
    \A lb \in LBIds, p \in Players :
        (ModeIs(lb, "best") /\ rq[1].pc = "idle") =>
            LET cand == PriorScores(lb, p) \cup AcceptedScores(lb, p) IN
            /\ cand = {} => p \notin DOMAIN zset[lb]
            /\ cand # {} => /\ p \in DOMAIN zset[lb]
                            /\ zset[lb][p] = IF leaderboards[lb].sort_order = "desc"
                                             THEN SetMax(cand) ELSE SetMin(cand)

\* an ascending best-mode leaderboard on which a player, absent at first, has
\* had two submissions accepted, one of them not the score kept
C2_Witness ==
    /\ ModeIs(1, "best") /\ leaderboards[1].sort_order = "asc"
    /\ rq[1].pc = "idle"
    /\ \E p \in Players :
          /\ p \notin DOMAIN zset0[1]
          /\ p \in DOMAIN zset[1]
          /\ \E s \in AcceptedScores(1, p) : s > zset[1][p]

\* C3: on an increment-mode leaderboard, after sequential submits s1..sn for a
\* player who was absent the score is s1+...+sn (the first submit creating the
\* entry with s1).
C3_IncrementSequential ==
    \A lb \in LBIds, p \in Players :
        (ModeIs(lb, "increment") /\ rq[1].pc = "idle" /\ p \notin DOMAIN zset0[lb]) =>
            /\ AcceptedFor(lb, p) = 0 => p \notin DOMAIN zset[lb]
            /\ AcceptedFor(lb, p) > 0 => /\ p \in DOMAIN zset[lb]
                                         /\ zset[lb][p] = AcceptedSum(lb, p)

\* two submits for a player who was absent have returned
C3_Witness ==
    /\ ModeIs(1, "increment")
    /\ rq[1].pc = "idle"
    /\ \E p \in Players : /\ p \notin DOMAIN zset0[1]
                          /\ AcceptedFor(1, p) = 2
                          /\ zset[1][p] = AcceptedSum(1, p)

\* C4: concurrent increment-mode submits on one (leaderboard, player) lose no
\* increment: once all of them have returned the score is the prior score (0
\* if absent) plus the sum of the submitted deltas.
C4_IncrementCommutes ==
    \A lb \in LBIds, p \in Players :
        (ModeIs(lb, "increment") /\ ~InFlight(lb, p) /\ AcceptedFor(lb, p) > 0) =>
            /\ p \in DOMAIN zset[lb]
            /\ zset[lb][p] = PriorOrZero(lb, p) + AcceptedSum(lb, p)

\* both request tasks have added their delta to the same player's prior score
\* and neither has returned yet
C4_Witness ==
    /\ ModeIs(1, "increment")
    /\ rq[1].pc = "RecordEvent" /\ rq[2].pc = "RecordEvent"
    /\ rq[1].sub.lb = 1 /\ rq[2].sub.lb = 1
    /\ rq[1].sub.player = rq[2].sub.player
    /\ rq[1].sub.player \in DOMAIN zset0[1]
    /\ zset[1][rq[1].sub.player] =
           zset0[1][rq[1].sub.player] + rq[1].sub.score + rq[2].sub.score

(***************************************************************************)
(* The read path.  Redis orders a sorted set by score and, among equal     *)
(* scores, by member; ZREVRANGE and ZREVRANK walk that order backwards.    *)
(***************************************************************************)
\* member a comes before member b in the reverse order of sorted set z
RevBefore(z, a, b) == z[a] > z[b] \/ (z[a] = z[b] /\ a > b)

RECURSIVE RevSorted(_, _)
RevSorted(z, S) ==
    IF S = {} THEN <<>>
    ELSE LET first == CHOOSE a \in S : \A b \in S \ {a} : RevBefore(z, a, b)
         IN <<first>> \o RevSorted(z, S \ {first})

\* ZREVRANGE key start stop WITHSCORES: 0-based inclusive indexes, a negative
\* index counts from the end, the range is clipped to the set
ZRevRangeWithScores(z, start, stop) ==
    LET all == RevSorted(z, DOMAIN z)
        n == Len(all)
        s0 == IF start < 0 THEN start + n ELSE start
        s == IF s0 < 0 THEN 0 ELSE s0
        e0 == IF stop < 0 THEN stop + n ELSE stop
        e == IF e0 >= n THEN n - 1 ELSE e0
    IN IF s > e \/ s >= n THEN <<>>
       ELSE [i \in 1..(e - s + 1) |-> [Member |-> all[s + i], Score |-> z[all[s + i]]]]

\* ZREVRANK key member: the 0-based position, or nothing (redis.Nil)
ZRevRank(z, member) ==
    LET all == RevSorted(z, DOMAIN z)
    IN IF member \in DOMAIN z
       THEN <<(CHOOSE i \in 1..Len(all) : all[i] = member) - 1>>
       ELSE <<>>

Entry(rank, playerID, score) == [Rank |-> rank, PlayerID |-> playerID, Score |-> score]
Ok(entries) == [err |-> "", entries |-> entries]
ErrPlayerNotFound == [err |-> "player not found", entries |-> <<>>]

GetTopNOneMore(z, n) ==
    LET results == ZRevRangeWithScores(z, 0, n)
    IN Ok([i \in 1..Len(results) |->
              Entry((i - 1) + 1, results[i].Member, results[i].Score)])

\* redis.LeaderboardService.GetTopN; index i of the Go loop is i - 1 here
GetTopN(z, n) ==
    LET results == ZRevRangeWithScores(z, 0, n - 1)
    IN Ok([i \in 1..Len(results) |->
              Entry((i - 1) + 1, results[i].Member, results[i].Score)])

\* redis.LeaderboardService.GetRange
GetRange(z, start, end) ==
    LET results == ZRevRangeWithScores(z, start, end)
    IN Ok([i \in 1..Len(results) |->
              Entry(start + (i - 1) + 1, results[i].Member, results[i].Score)])

GetPlayerRankZeroBased(z, playerID) ==
    IF ZRevRank(z, playerID) = <<>> THEN ErrPlayerNotFound
    ELSE Ok(<<Entry(ZRevRank(z, playerID)[1], playerID, ZScore(z, playerID)[1])>>)

\* redis.LeaderboardService.GetPlayerRank
GetPlayerRank(z, playerID) ==
    LET rank == ZRevRank(z, playerID)
        score == ZScore(z, playerID)
    IN IF rank = <<>> THEN ErrPlayerNotFound
       ELSE Ok(<<Entry(rank[1] + 1, playerID, score[1])>>)

GetAroundPlayerAbove(z, playerID, count) ==
    LET playerEntry == GetPlayerRank(z, playerID)
    IN IF playerEntry.err # "" THEN playerEntry
       ELSE LET rank == playerEntry.entries[1].Rank
                start == IF rank - count - 1 < 0 THEN 0 ELSE rank - count - 1
                end == rank - 1
            IN GetRange(z, start, end)

\* redis.LeaderboardService.GetAroundPlayer
GetAroundPlayer(z, playerID, count) ==
    LET playerEntry == GetPlayerRank(z, playerID)
    IN IF playerEntry.err # "" THEN playerEntry
       ELSE LET rank == playerEntry.entries[1].Rank
                start == IF rank - count - 1 < 0 THEN 0 ELSE rank - count - 1
                end == rank + count - 1
            IN GetRange(z, start, end)

\* config.LeaderboardConfig: default_limit and max_limit
DefaultLimit == 100
MaxLimit == 1000

\* service.LeaderboardService.GetTopN
ServiceGetTopN(z, n) ==
    LET n1 == IF n <= 0 THEN DefaultLimit ELSE n
        n2 == IF n1 > MaxLimit THEN MaxLimit ELSE n1
    IN GetTopN(z, n2)

\* service.LeaderboardService.GetAroundPlayer
ServiceGetAroundPlayer(z, playerID, count) ==
    LET c1 == IF count <= 0 THEN 5 ELSE count
        c2 == IF c1 > 50 THEN 50 ELSE c1
    IN GetAroundPlayer(z, playerID, c2)

\* service.LeaderboardService.GetRange
ServiceGetRange(z, start, end) ==
    LET s1 == IF start < 0 THEN 0 ELSE start
        e1 == IF end < s1 THEN s1 ELSE end
        e2 == IF e1 - s1 > MaxLimit THEN s1 + MaxLimit ELSE e1
    IN GetRange(z, s1, e2)

\* the arguments the read requests of the model carry
ReadLimits == {0, 1, 2, 3}
ReadCounts == {0, 1}
ReadIndexes == {-1, 0, 1, 2}

Reply(op, lb, playerID, result) ==
    [op |-> op, lb |-> lb, player |-> playerID, arg |-> 0,
     err |-> result.err, entries |-> result.entries]

ReadTopN(lb, n) ==
    /\ reply' = [Reply("top_n", lb, 0, ServiceGetTopN(zset[lb], n)) EXCEPT !.arg = n]
    /\ UNCHANGED <<storeVars, engineVars, hubVars, syncVars, opsVars>>

ReadPlayerRank(lb, playerID) ==
    /\ reply' = Reply("rank_of", lb, playerID, GetPlayerRank(zset[lb], playerID))
    /\ UNCHANGED <<storeVars, engineVars, hubVars, syncVars, opsVars>>

ReadAroundPlayer(lb, playerID, count) ==
    /\ reply' = [Reply("around", lb, playerID,
                        ServiceGetAroundPlayer(zset[lb], playerID, count))
                     EXCEPT !.arg = count]
    /\ UNCHANGED <<storeVars, engineVars, hubVars, syncVars, opsVars>>

ReadRange(lb, start, end) ==
    /\ reply' = Reply("range", lb, 0, ServiceGetRange(zset[lb], start, end))
    /\ UNCHANGED <<storeVars, engineVars, hubVars, syncVars, opsVars>>

\* leaderboard 1 exists with any configuration and any scores, leaderboard 2
\* does not exist
InitRead ==
    /\ \E cfg \in Configs : leaderboards = Put(EmptyMap, 1, cfg)
    /\ player_scores = NoScores
    /\ score_events = <<>>
    /\ \E z \in Maps(Players, Scores) : zset = [NoScores EXCEPT ![1] = z]
    /\ meta = leaderboards
    /\ EngineIdle
    /\ reply = NoReply
    /\ HubFresh
    /\ sw = SyncIdle
    /\ OpsIdle

NextRead ==
    \/ \E lb \in LBIds, n \in ReadLimits : ReadTopN(lb, n)
    \/ \E lb \in LBIds, playerID \in Players : ReadPlayerRank(lb, playerID)
    \/ \E lb \in LBIds, playerID \in Players, count \in ReadCounts :
          ReadAroundPlayer(lb, playerID, count)
    \/ \E lb \in LBIds, start \in ReadIndexes, end \in ReadIndexes : ReadRange(lb, start, end)

SpecRead == InitRead /\ [][NextRead]_vars

\* score a is strictly better than score b under the leaderboard's sort_order
StrictlyBetter(a, b, lbConfig) ==
    IF lbConfig.sort_order = "desc" THEN a > b ELSE a < b

IsListing == reply.op \in {"top_n", "around", "range", "rank_of"} /\ reply.err = ""
ReplyConfig == leaderboards[reply.lb]

\* C5: the ranks reported by top_n, rank_of, around and range follow the
\* leaderboard's sort_order: of two entries the one with the strictly better
\* score (the lower one on an ascending leaderboard) has the smaller rank,
\* within one listing and between a rank_of answer and any other player's.
C5_RanksFollowSortOrder ==
    (IsListing /\ reply.lb \in DOMAIN leaderboards) =>
        /\ \A i, j \in DOMAIN reply.entries :
              StrictlyBetter(reply.entries[i].Score, reply.entries[j].Score, ReplyConfig)
                  => reply.entries[i].Rank < reply.entries[j].Rank
        /\ reply.op = "rank_of" =>
              \A q \in DOMAIN zset[reply.lb] :
                  StrictlyBetter(zset[reply.lb][q], reply.entries[1].Score, ReplyConfig)
                      => GetPlayerRank(zset[reply.lb], q).entries[1].Rank
                            < reply.entries[1].Rank

\* the entries of z whose score is strictly better than score
StrictlyBetterEntries(z, score, lbConfig) ==
    {q \in DOMAIN z : StrictlyBetter(z[q], score, lbConfig)}

\* C6: the rank reported by rank_of and by top_n is 1 + the number of entries
\* with a strictly better score, also when scores are tied.
C6_RankCountsStrictlyBetter ==
    (reply.op \in {"rank_of", "top_n"} /\ reply.err = "" /\ reply.lb \in DOMAIN leaderboards) =>
        \A i \in DOMAIN reply.entries :
            reply.entries[i].Rank =
                1 + Cardinality(StrictlyBetterEntries(zset[reply.lb],
                                                      reply.entries[i].Score, ReplyConfig))

\* C6 (amended): on a descending leaderboard the rank reported by rank_of and
\* by top_n is 1 + the number of entries with a strictly better score + the
\* number of entries with the same score and a greater player id: tied
\* entries get distinct, consecutive ranks.
C6_RankIsOrdinal ==
    (/\ reply.op \in {"rank_of", "top_n"} /\ reply.err = ""
     /\ reply.lb \in DOMAIN leaderboards
     /\ ReplyConfig.sort_order = "desc") =>
        \A i \in DOMAIN reply.entries :
            reply.entries[i].Rank =
                1 + Cardinality(StrictlyBetterEntries(zset[reply.lb],
                                                      reply.entries[i].Score, ReplyConfig))
                  + Cardinality({q \in DOMAIN zset[reply.lb] :
                                    /\ zset[reply.lb][q] = reply.entries[i].Score
                                    /\ q > reply.entries[i].PlayerID})

\* rank_of answered, on a descending leaderboard, for a player tied with a
\* player of greater id and so ranked behind it, though no entry has a
\* strictly better score
C6_Witness ==
    /\ reply.op = "rank_of" /\ reply.err = ""
    /\ reply.lb \in DOMAIN leaderboards /\ ReplyConfig.sort_order = "desc"
    /\ reply.entries[1].Rank = 2
    /\ StrictlyBetterEntries(zset[reply.lb], reply.entries[1].Score, ReplyConfig) = {}
    /\ \E q \in DOMAIN zset[reply.lb] :
          q > reply.player /\ zset[reply.lb][q] = reply.entries[1].Score

(***************************************************************************)
(* The WebSocket hub (Hub.Run and the functions that post to its channels) *)
(* and the two goroutines of every client, readPump and writePump.         *)
(* A buffered channel is the sequence of the values it holds.              *)
(***************************************************************************)
\* make(chan []byte, 256) in NewClient; the channels made by NewHub
SendCap == 256
BroadcastCap == 256
SubscribeCap == 64
UnsubscribeCap == 64

Update(lb, id) == [type |-> "leaderboard_update", lb |-> lb, id |-> id]
Ack(action, lb) == [type |-> action, lb |-> lb, id |-> 0]
ErrorMessage == [type |-> "error", lb |-> EmptyId, id |-> 0]
Pong == [type |-> "pong", lb |-> EmptyId, id |-> 0]
Request(c, lb) == [client |-> c, leaderboardID |-> lb]

TrySendPrepend(ch, cap, m) == IF Len(ch) < cap THEN <<m>> \o ch ELSE ch

\* select { case ch <- m: default: } on an open channel of capacity cap
TrySend(ch, cap, m) == IF Len(ch) < cap THEN Append(ch, m) ELSE ch

RemoveClientKeepEmpty(subs, lb, c) ==
    IF lb \notin DOMAIN subs THEN subs ELSE [subs EXCEPT ![lb] = @ \ {c}]

\* delete(clients, client) and, if the set is now empty, delete(h.clients, lbID)
RemoveClient(subs, lb, c) ==
    IF lb \notin DOMAIN subs THEN subs
    ELSE IF subs[lb] \ {c} = {} THEN Del(subs, lb)
    ELSE [subs EXCEPT ![lb] = @ \ {c}]

RECURSIVE RemoveFromAll(_, _, _)
RemoveFromAll(subs, S, c) ==
    IF S = {} THEN subs
    ELSE LET lb == CHOOSE x \in S : TRUE
         IN RemoveFromAll(RemoveClient(subs, lb, c), S \ {lb}, c)

\* the clients broadcastMessage ranges over
Targets(message) ==
    IF message.lb # EmptyId
    THEN IF message.lb \in DOMAIN clients THEN clients[message.lb] ELSE {}
    ELSE allClients

\* ServeWs: hub.Register(client) hands the client to Run over the unbuffered
\* register channel, then the two pumps are started
HubRegister(c) ==
    /\ hubRunning /\ ~panicked
    /\ cl[c].rp = "new"
    /\ allClients' = allClients \cup {c}
    /\ cl' = [cl EXCEPT ![c].rp = "reading", ![c].wp = "select"]
    /\ UNCHANGED <<clients, broadcast, subscribe, unsubscribe, send, sendClosed, hubRunning,
                   hubCancelled, panicked, ninbound, nextId, offered, processed, delivered>>
    /\ UNCHANGED <<storeVars, engineVars, readVars, syncVars, opsVars>>

\* case client := <-h.unregister, met by the deferred hub.Unregister of readPump
HubUnregister(c) ==
    /\ hubRunning /\ ~panicked
    /\ cl[c].rp = "unregistering"
    /\ IF c \in allClients
       THEN /\ allClients' = allClients \ {c}
            /\ clients' = RemoveFromAll(clients, DOMAIN clients, c)
            /\ sendClosed' = [sendClosed EXCEPT ![c] = TRUE]
       ELSE UNCHANGED <<allClients, clients, sendClosed>>
    /\ cl' = [cl EXCEPT ![c].rp = "closed"]
    /\ UNCHANGED <<broadcast, subscribe, unsubscribe, send, hubRunning, hubCancelled,
                   panicked, ninbound, nextId, offered, processed, delivered>>
    /\ UNCHANGED <<storeVars, engineVars, readVars, syncVars, opsVars>>

\* case req := <-h.subscribe
HubSubscribe ==
    /\ hubRunning /\ ~panicked
    /\ subscribe # <<>>
    /\ LET req == Head(subscribe)
           set == IF req.leaderboardID \in DOMAIN clients
                  THEN clients[req.leaderboardID] ELSE {}
       IN clients' = Put(clients, req.leaderboardID, set \cup {req.client})
    /\ subscribe' = Tail(subscribe)
    /\ UNCHANGED <<allClients, broadcast, unsubscribe, send, sendClosed, hubRunning,
                   hubCancelled, panicked, cl, ninbound, nextId, offered, processed,
                   delivered>>
    /\ UNCHANGED <<storeVars, engineVars, readVars, syncVars, opsVars>>

\* case req := <-h.unsubscribe
HubUnsubscribe ==
    /\ hubRunning /\ ~panicked
    /\ unsubscribe # <<>>
    /\ LET req == Head(unsubscribe)
       IN clients' = RemoveClient(clients, req.leaderboardID, req.client)
    /\ unsubscribe' = Tail(unsubscribe)
    /\ UNCHANGED <<allClients, broadcast, subscribe, send, sendClosed, hubRunning,
                   hubCancelled, panicked, cl, ninbound, nextId, offered, processed,
                   delivered>>
    /\ UNCHANGED <<storeVars, engineVars, readVars, syncVars, opsVars>>

\* case message := <-h.broadcast: broadcastMessage.  A send on a channel that
\* close(client.send) has closed panics; the clients the map iteration visited
\* before that one have been served.
HubBroadcast ==
    /\ hubRunning /\ ~panicked
    /\ broadcast # <<>>
    /\ LET message == Head(broadcast)
           closed == {c \in Targets(message) : sendClosed[c]}
       IN /\ processed' = Append(processed, message.id)
          /\ IF closed = {}
             THEN /\ send' = [c \in Clients |->
                                 IF c \in Targets(message)
                                 THEN TrySend(send[c], SendCap, message) ELSE send[c]]
                  /\ UNCHANGED panicked
             ELSE /\ \E served \in SUBSET (Targets(message) \ closed) :
                        send' = [c \in Clients |->
                                    IF c \in served
                                    THEN TrySend(send[c], SendCap, message) ELSE send[c]]
                  /\ panicked' = TRUE
    /\ broadcast' = Tail(broadcast)
    /\ UNCHANGED <<allClients, clients, subscribe, unsubscribe, sendClosed, hubRunning,
                   hubCancelled, cl, ninbound, nextId, offered, delivered>>
    /\ UNCHANGED <<storeVars, engineVars, readVars, syncVars, opsVars>>

\* Hub.Stop
HubStop ==
    /\ ~hubCancelled /\ ~panicked
    /\ hubCancelled' = TRUE
    /\ UNCHANGED <<allClients, clients, broadcast, subscribe, unsubscribe, send, sendClosed,
                   hubRunning, panicked, cl, ninbound, nextId, offered, processed, delivered>>
    /\ UNCHANGED <<storeVars, engineVars, readVars, syncVars, opsVars>>

\* case <-h.ctx.Done(): Run returns, whatever its channels still hold
HubRunReturn ==
    /\ hubRunning /\ ~panicked
    /\ hubCancelled
    /\ hubRunning' = FALSE
    /\ UNCHANGED <<allClients, clients, broadcast, subscribe, unsubscribe, send, sendClosed,
                   hubCancelled, panicked, cl, ninbound, nextId, offered, processed,
                   delivered>>
    /\ UNCHANGED <<storeVars, engineVars, readVars, syncVars, opsVars>>

\* Hub.BroadcastLeaderboardUpdate
BroadcastLeaderboardUpdate(leaderboardID) ==
    /\ ~panicked
    /\ nextId <= MaxBroadcasts
    /\ broadcast' = TrySend(broadcast, BroadcastCap, Update(leaderboardID, nextId))
    /\ nextId' = nextId + 1
    /\ offered' = [offered EXCEPT ![leaderboardID] = @ + 1]
    /\ UNCHANGED <<allClients, clients, subscribe, unsubscribe, send, sendClosed, hubRunning,
                   hubCancelled, panicked, cl, ninbound, processed, delivered>>
    /\ UNCHANGED <<storeVars, engineVars, readVars, syncVars, opsVars>>

\* what every step of a client's pumps leaves alone
ClientFrame ==
    /\ ~panicked
    /\ UNCHANGED <<allClients, clients, broadcast, sendClosed, hubRunning, hubCancelled,
                   panicked, nextId, offered, processed>>
    /\ UNCHANGED <<storeVars, engineVars, readVars, syncVars, opsVars>>

\* readPump reads {"type":"subscribe"}: handleMessage calls hub.Subscribe,
\* which waits for room in the subscribe channel, or answers with an error
\* when the message names no leaderboard
ReadSubscribe(c, lb) ==
    /\ c \in Talkers
    /\ cl[c].rp = "reading"
    /\ ninbound < MaxInbound
    /\ ninbound' = ninbound + 1
    /\ IF lb # EmptyId
       THEN /\ Len(subscribe) < SubscribeCap
            /\ subscribe' = Append(subscribe, Request(c, lb))
            /\ cl' = [cl EXCEPT ![c].rp = "sendAck", ![c].ack = Ack("subscribed", lb)]
            /\ UNCHANGED send
       ELSE /\ send' = [send EXCEPT ![c] = TrySend(@, SendCap, ErrorMessage)]
            /\ UNCHANGED <<subscribe, cl>>
    /\ UNCHANGED <<unsubscribe, delivered>>
    /\ ClientFrame

\* readPump reads {"type":"unsubscribe"}; without a leaderboard id
\* handleMessage does nothing at all
ReadUnsubscribe(c, lb) ==
    /\ c \in Talkers
    /\ cl[c].rp = "reading"
    /\ ninbound < MaxInbound
    /\ ninbound' = ninbound + 1
    /\ IF lb # EmptyId
       THEN /\ Len(unsubscribe) < UnsubscribeCap
            /\ unsubscribe' = Append(unsubscribe, Request(c, lb))
            /\ cl' = [cl EXCEPT ![c].rp = "sendAck", ![c].ack = Ack("unsubscribed", lb)]
       ELSE UNCHANGED <<unsubscribe, cl>>
    /\ UNCHANGED <<subscribe, send, delivered>>
    /\ ClientFrame

\* sendAck, after hub.Subscribe or hub.Unsubscribe has returned
SendAck(c) ==
    /\ cl[c].rp = "sendAck"
    /\ send' = [send EXCEPT ![c] = TrySend(@, SendCap, cl[c].ack)]
    /\ cl' = [cl EXCEPT ![c].rp = "reading", ![c].ack = NoMessage]
    /\ UNCHANGED <<subscribe, unsubscribe, ninbound, delivered>>
    /\ ClientFrame

\* readPump reads {"type":"ping"} (sendPong) or bytes that are not JSON
\* (sendError)
ReadPing(c, answer) ==
    /\ c \in Talkers
    /\ cl[c].rp = "reading"
    /\ ninbound < MaxInbound
    /\ ninbound' = ninbound + 1
    /\ send' = [send EXCEPT ![c] = TrySend(@, SendCap, answer)]
    /\ UNCHANGED <<subscribe, unsubscribe, cl, delivered>>
    /\ ClientFrame

\* conn.ReadMessage fails: readPump leaves its loop and its deferred function
\* calls hub.Unregister
ReadFail(c) ==
    /\ c \in Talkers
    /\ cl[c].rp = "reading"
    /\ cl' = [cl EXCEPT ![c].rp = "unregistering"]
    /\ UNCHANGED <<subscribe, unsubscribe, send, ninbound, delivered>>
    /\ ClientFrame

FlushReversed(frame, queued) == queued \o frame

\* the frame writePump writes: the message it received, then the n messages
\* that were queued behind it
Flush(frame, queued) == frame \o queued

\* writePump: case message, ok := <-c.send
WritePumpReceive(c) ==
    /\ cl[c].wp = "select"
    /\ \/ /\ send[c] # <<>>
          /\ cl' = [cl EXCEPT ![c].wp = "flush", ![c].frame = <<Head(send[c])>>]
          /\ send' = [send EXCEPT ![c] = Tail(@)]
       \/ /\ send[c] = <<>>
          /\ sendClosed[c]
          /\ cl' = [cl EXCEPT ![c].wp = "exited"]
          /\ UNCHANGED send
    /\ UNCHANGED <<subscribe, unsubscribe, ninbound, delivered>>
    /\ ClientFrame

\* writePump: n := len(c.send), n more receives, w.Close().  Only writePump
\* takes from c.send, so the n messages it takes are the n that were queued
\* when it read the length.
WritePumpFlush(c) ==
    /\ cl[c].wp = "flush"
    /\ delivered' = [delivered EXCEPT ![c] = @ \o Flush(cl[c].frame, send[c])]
    /\ send' = [send EXCEPT ![c] = <<>>]
    /\ cl' = [cl EXCEPT ![c].wp = "select", ![c].frame = <<>>]
    /\ UNCHANGED <<subscribe, unsubscribe, ninbound>>
    /\ ClientFrame

\* writePump returns on a failed NextWriter, Close or ping write; what it
\* held is not delivered
WritePumpError(c) ==
    /\ c \in Talkers
    /\ cl[c].wp \in {"select", "flush"}
    /\ cl' = [cl EXCEPT ![c].wp = "exited", ![c].frame = <<>>]
    /\ UNCHANGED <<subscribe, unsubscribe, send, ninbound, delivered>>
    /\ ClientFrame

\* the configuration CreateLeaderboardRequest.ToConfig gives by default
DefaultConfig == [sort_order |-> "desc", update_mode |-> "replace"]

\* the ids of broadcasts that were posted before the behaviour starts
Backlog(n) == [i \in 1..n |-> Update(1, i - n - 1)]
BacklogIds(n) == [i \in 1..n |-> i - n - 1]

\* client 1 is connected and subscribed to leaderboard 1, has been sent its
\* acknowledgement, and then fell behind: its send channel is full of
\* broadcasts the hub has processed
HubSlowConsumer ==
    /\ allClients = {1}
    /\ clients = Put(EmptyMap, 1, {1})
    /\ broadcast = <<>>
    /\ subscribe = <<>>
    /\ unsubscribe = <<>>
    /\ send = [c \in Clients |-> IF c = 1 THEN Backlog(SendCap) ELSE <<>>]
    /\ sendClosed = [c \in Clients |-> FALSE]
    /\ hubRunning = TRUE
    /\ hubCancelled = FALSE
    /\ panicked = FALSE
    /\ cl = [c \in Clients |-> IF c = 1 THEN [NewConn EXCEPT !.rp = "reading", !.wp = "select"]
                                        ELSE NewConn]
    /\ ninbound = 0
    /\ nextId = 1
    /\ offered = [t \in Topics |-> IF t = 1 THEN SendCap ELSE 0]
    /\ processed = BacklogIds(SendCap)
    /\ delivered = [c \in Clients |-> IF c = 1 THEN <<Ack("subscribed", 1)>> ELSE <<>>]

\* Hub.Stop has been called and Run has returned; since then broadcasts were
\* posted until one slot of the broadcast channel was left
HubStoppedBacklog ==
    /\ allClients = {}
    /\ clients = EmptyMap
    /\ broadcast = Backlog(BroadcastCap - 1)
    /\ subscribe = <<>>
    /\ unsubscribe = <<>>
    /\ send = [c \in Clients |-> <<>>]
    /\ sendClosed = [c \in Clients |-> FALSE]
    /\ hubRunning = FALSE
    /\ hubCancelled = TRUE
    /\ panicked = FALSE
    /\ cl = [c \in Clients |-> NewConn]
    /\ ninbound = 0
    /\ nextId = 1
    /\ offered = [t \in Topics |-> IF t = 1 THEN BroadcastCap - 1 ELSE 0]
    /\ processed = <<>>
    /\ delivered = [c \in Clients |-> <<>>]

InitHub ==
    /\ leaderboards = Put(EmptyMap, 1, DefaultConfig)
    /\ player_scores = NoScores
    /\ score_events = <<>>
    /\ zset = NoScores
    /\ meta = leaderboards
    /\ EngineIdle
    /\ reply = NoReply
    /\ sw = SyncIdle
    /\ OpsIdle
    /\ \/ HubFresh
       \/ HubSlowConsumer

NextHub ==
    \/ \E c \in Clients : HubRegister(c)
    \/ \E c \in Clients : HubUnregister(c)
    \/ HubSubscribe
    \/ HubUnsubscribe
    \/ HubBroadcast
    \/ \E c \in Clients, lb \in HubTopics : ReadSubscribe(c, lb)
    \/ \E c \in Clients, lb \in HubTopics : ReadUnsubscribe(c, lb)
    \/ \E c \in Clients : SendAck(c)
    \/ \E c \in Clients, answer \in {Pong, ErrorMessage} : ReadPing(c, answer)
    \/ \E c \in Clients : ReadFail(c)
    \/ \E c \in Clients : WritePumpReceive(c)
    \/ \E c \in Clients : WritePumpFlush(c)
    \/ \E c \in Clients : WritePumpError(c)
    \/ \E lb \in HubLBs : BroadcastLeaderboardUpdate(lb)

SpecHub == InitHub /\ [][NextHub]_vars

\* the hub with shutdown: Hub.Stop may be called at any time, and the
\* behaviour may start after it was
InitHubStop ==
    /\ leaderboards = Put(EmptyMap, 1, DefaultConfig)
    /\ player_scores = NoScores
    /\ score_events = <<>>
    /\ zset = NoScores
    /\ meta = leaderboards
    /\ EngineIdle
    /\ reply = NoReply
    /\ sw = SyncIdle
    /\ OpsIdle
    /\ \/ HubFresh
       \/ HubStoppedBacklog

NextHubStop ==
    \/ NextHub
    \/ HubStop
    \/ HubRunReturn

SpecHubStop == InitHubStop /\ [][NextHubStop]_vars

\* the sequence of the ids of the leaderboard updates in a sequence of messages
IsUpdate(message) == message.type = "leaderboard_update"
UpdateIds(messages) ==
    LET updates == SelectSeq(messages, IsUpdate)
    IN [i \in 1..Len(updates) |-> updates[i].id]

\* the first position from j on at which x occurs in b; Len(b) + 1 if none
NextPos(b, x, j) ==
    IF \E k \in j..Len(b) : b[k] = x
    THEN CHOOSE k \in j..Len(b) : b[k] = x /\ \A m \in j..(k - 1) : b[m] # x
    ELSE Len(b) + 1

\* matching a[lo..hi] in order against b from position j on, each element at
\* its first occurrence after the one before: the position after the last
\* match, which is beyond Len(b) + 1 if the match fails.  A stretch of a that
\* stands in b at position j is matched right there.
RECURSIVE MatchEnd(_, _, _, _, _)
MatchEnd(a, lo, hi, b, j) ==
    IF j > Len(b) + 1 \/ lo > hi THEN j
    ELSE IF j + (hi - lo) <= Len(b) /\ SubSeq(a, lo, hi) = SubSeq(b, j, j + (hi - lo))
         THEN j + (hi - lo) + 1
    ELSE IF lo = hi THEN NextPos(b, a[lo], j) + 1
    ELSE LET mid == (lo + hi) \div 2
         IN MatchEnd(a, mid + 1, hi, b, MatchEnd(a, lo, mid, b, j))

\* a is b with some elements left out
IsSubseq(a, b) == MatchEnd(a, 1, Len(a), b, 1) <= Len(b) + 1

Range(f) == {f[i] : i \in DOMAIN f}

\* the number of SubmitScore calls for leaderboard lb that returned nil
RECURSIVE AcceptedOnPlayers(_, _)
AcceptedOnPlayers(lb, S) ==
    IF S = {} THEN 0
    ELSE LET p == CHOOSE x \in S : TRUE
         IN AcceptedFor(lb, p) + AcceptedOnPlayers(lb, S \ {p})
AcceptedOn(lb) == AcceptedOnPlayers(lb, Players)

\* C7: after every successful submit the engine hands a leaderboard_update for
\* the written leaderboard to the hub: when no submit is in progress, the
\* number of broadcasts offered to the hub for a leaderboard (queued, or
\* dropped because the broadcast queue was full) is the number of successful
\* writes to it.
C7_BroadcastPerWrite ==
    (\A self \in Procs : rq[self].pc = "idle") =>
        \A lb \in LBIds : offered[lb] = AcceptedOn(lb)

\* C8: a broadcast never blocks on a subscriber: when a subscriber's send
\* queue already holds 256 messages the coordinator's broadcast step leaves
\* that queue as it is and the subscriber registered and subscribed, every
\* other subscriber of the leaderboard has the message appended to its
\* queue, and no queue ever holds more than 256 messages.
C8_FullQueueDropsOnlyThere ==
    /\ [][(/\ hubRunning /\ broadcast # <<>>
           /\ broadcast' = Tail(broadcast) /\ processed' # processed
           /\ \E c \in Targets(Head(broadcast)) : Len(send[c]) = SendCap)
          => LET message == Head(broadcast) IN
             \A c \in Targets(message) :
                 IF Len(send[c]) = SendCap
                 THEN /\ send'[c] = send[c]
                      /\ c \in allClients'
                      /\ message.lb \in DOMAIN clients'
                      /\ c \in clients'[message.lb]
                 ELSE send'[c] = Append(send[c], message)]_vars
    /\ [](\A c \in Clients : Len(send[c]) <= SendCap)

\* C9: the leaderboard updates written to a subscriber's connection are a
\* subsequence of the broadcasts in the order the coordinator processed
\* them: some may be missing, none is reordered or duplicated, also when
\* writePump puts several queued messages into one frame.
C9_DeliveredInProcessedOrder ==
    \A c \in Clients : IsSubseq(UpdateIds(delivered[c]), processed)

\* a subscriber that fell behind has been written one frame of all the updates
\* that were queued for it, and a broadcast processed while its queue was full
\* is missing from what it was written and from what it is still to be written
C9_Witness ==
    \E c \in Clients :
        /\ Len(UpdateIds(delivered[c])) >= SendCap
        /\ send[c] = <<>> /\ cl[c].frame = <<>>
        /\ \E i \in DOMAIN processed : processed[i] \notin Range(UpdateIds(delivered[c]))

(***************************************************************************)
(* Startup recovery: SyncWorker.SyncAllFromDatabase, which main runs        *)
(* before the sync worker, the Kafka consumer and the HTTP server start.   *)
(* Any call to a store may fail; sw.failed records that one did.           *)
(***************************************************************************)
BatchSetScoresKeepExisting(z, scores) ==
    [p \in (DOMAIN z) \cup (DOMAIN scores) |-> IF p \in DOMAIN z THEN z[p] ELSE scores[p]]

\* redis.LeaderboardService.BatchSetScores: one ZADD per entry of scores
BatchSetScores(z, scores) ==
    [p \in (DOMAIN z) \cup (DOMAIN scores) |-> IF p \in DOMAIN scores THEN scores[p] ELSE z[p]]

\* the scores of the players in S only
Restrict(scores, S) == [p \in S |-> scores[p]]

\* the orders in which ListLeaderboards can return the rows of the table
Orderings(S) ==
    {o \in [1..Cardinality(S) -> S] : \A i, j \in DOMAIN o : i # j => o[i] # o[j]}

SyncFrame ==
    UNCHANGED <<leaderboards, player_scores, score_events, engineVars, readVars, hubVars, opsVars>>

\* after one leaderboard: the next one, or the end of SyncAllFromDatabase
AfterMeta(todo) == IF Len(todo) > 1 THEN "GetAllScores" ELSE "done"

\* SyncAllFromDatabase: postgres.ListLeaderboards
SyncListLeaderboards ==
    /\ sw.pc = "idle"
    /\ \/ \E o \in Orderings(DOMAIN leaderboards) :
             sw' = [sw EXCEPT !.pc = IF o = <<>> THEN "done" ELSE "GetAllScores",
                              !.todo = [i \in DOMAIN o |-> [id |-> o[i], config |-> leaderboards[o[i]]]]]
       \/ sw' = [sw EXCEPT !.pc = "done", !.failed = TRUE]
    /\ UNCHANGED <<zset, meta>>
    /\ SyncFrame

\* SyncFromDatabase: postgres.GetAllScores; with no scores, or on an error,
\* SyncFromDatabase returns and SyncAllFromDatabase goes on to the metadata
SyncGetAllScores ==
    /\ sw.pc = "GetAllScores"
    /\ LET lb == Head(sw.todo).id IN
       \/ sw' = [sw EXCEPT !.scores = player_scores[lb],
                           !.pc = IF DOMAIN player_scores[lb] = {}
                                  THEN "SetLeaderboardMeta" ELSE "BatchSetScores"]
       \/ sw' = [sw EXCEPT !.pc = "SetLeaderboardMeta", !.failed = TRUE]
    /\ UNCHANGED <<zset, meta>>
    /\ SyncFrame

\* SyncFromDatabase: redis.BatchSetScores; a pipeline that fails may have
\* run any of its commands
SyncBatchSetScores ==
    /\ sw.pc = "BatchSetScores"
    /\ LET lb == Head(sw.todo).id IN
       \/ /\ zset' = [zset EXCEPT ![lb] = BatchSetScores(@, sw.scores)]
          /\ sw' = [sw EXCEPT !.pc = "SetLeaderboardMeta", !.scores = EmptyMap]
       \/ /\ \E done \in SUBSET (DOMAIN sw.scores) :
                zset' = [zset EXCEPT ![lb] = BatchSetScores(@, Restrict(sw.scores, done))]
          /\ sw' = [sw EXCEPT !.pc = "SetLeaderboardMeta", !.scores = EmptyMap,
                              !.failed = TRUE]
    /\ UNCHANGED meta
    /\ SyncFrame

\* SyncAllFromDatabase: redis.SetLeaderboardMeta, then the next leaderboard
SyncSetLeaderboardMeta ==
    /\ sw.pc = "SetLeaderboardMeta"
    /\ LET lb == Head(sw.todo) IN
       \/ /\ meta' = Put(meta, lb.id, lb.config)
          /\ sw' = [sw EXCEPT !.pc = AfterMeta(sw.todo), !.todo = Tail(@)]
       \/ /\ UNCHANGED meta
          /\ sw' = [sw EXCEPT !.pc = AfterMeta(sw.todo), !.todo = Tail(@), !.failed = TRUE]
    /\ UNCHANGED zset
    /\ SyncFrame

\* what the stores may hold when the process starts: PostgreSQL has any
\* leaderboards, with scores only for leaderboards that exist (the foreign
\* key of player_scores); Redis has anything left from before
RecoverConfigs == {DefaultConfig, [sort_order |-> "asc", update_mode |-> "best"]}
ColdScores == Maps({1, 2}, {1, 2})
StaleScores == {EmptyMap, [p \in {1, 3} |-> -1]}
StaleMeta == {EmptyMap, [lb \in LBIds |-> DefaultConfig]}

InitRecover ==
    /\ leaderboards \in Maps(LBIds, RecoverConfigs)
    /\ player_scores \in [LBIds -> ColdScores]
    /\ \A lb \in LBIds : lb \notin DOMAIN leaderboards => player_scores[lb] = EmptyMap
    /\ score_events = <<>>
    /\ zset \in [LBIds -> StaleScores]
    /\ meta \in StaleMeta
    /\ EngineIdle
    /\ reply = NoReply
    /\ HubFresh
    /\ sw = SyncIdle
    /\ OpsIdle

NextRecover ==
    \/ SyncListLeaderboards
    \/ SyncGetAllScores
    \/ SyncBatchSetScores
    \/ SyncSetLeaderboardMeta

SpecRecover == InitRecover /\ [][NextRecover]_vars

\* C10: when SyncAllFromDatabase has completed and no store call failed, for
\* every row (leaderboard, player, score) of player_scores the Redis index
\* reports that player with that score, and every leaderboard's configuration
\* is in the Redis metadata cache.
C10_RecoveryFidelity ==
    (sw.pc = "done" /\ ~sw.failed) =>
        \A lb \in DOMAIN leaderboards :
            /\ \A p \in DOMAIN player_scores[lb] :
                  LET answer == GetPlayerRank(zset[lb], p) IN
                  /\ answer.err = ""
                  /\ answer.entries[1].Score = player_scores[lb][p]
            /\ lb \in DOMAIN meta
            /\ meta[lb] = leaderboards[lb]

\* recovery has completed without a failure for two leaderboards, replacing a
\* stale score of a player and a stale configuration
C10_Witness ==
    /\ sw.pc = "done" /\ ~sw.failed
    /\ DOMAIN leaderboards = LBIds
    /\ leaderboards[2] # DefaultConfig /\ meta[2] = leaderboards[2]
    /\ \E lb \in LBIds, p \in Players :
          /\ p \in DOMAIN zset0[lb] /\ p \in DOMAIN player_scores[lb]
          /\ zset0[lb][p] # player_scores[lb][p]
          /\ zset[lb][p] = player_scores[lb][p]

(***************************************************************************)
(* The HTTP handlers (internal/handler/http.go) turn the error a service   *)
(* call returned into a status code and an error of the response body.     *)
(***************************************************************************)
Response(status, err) == [NoResponse EXCEPT !.status = status, !.error = err]

StatusOK == 200
StatusCreated == 201
StatusBadRequest == 400
StatusNotFound == 404
StatusConflict == 409
StatusInternalServerError == 500

\* Handler.RemovePlayer
HttpRemovePlayer(err) ==
    IF err = Nil THEN Response(StatusOK, Nil)
    ELSE IF err = ErrPlayerNotFoundInLeaderboard THEN Response(StatusNotFound, err)
    ELSE Response(StatusInternalServerError, ErrInternalError)

HttpResetLeaderboardAlwaysOK(err) == Response(StatusOK, Nil)

\* Handler.ResetLeaderboard
HttpResetLeaderboard(err) ==
    IF err = Nil THEN Response(StatusOK, Nil)
    ELSE IF err = ErrLeaderboardNotFound THEN Response(StatusNotFound, err)
    ELSE Response(StatusInternalServerError, ErrInternalError)

HttpCreateLeaderboardNoConflict(err, config) ==
    IF err = Nil THEN [Response(StatusCreated, Nil) EXCEPT !.config = config]
    ELSE IF err = ErrInvalidLeaderboard THEN Response(StatusBadRequest, err)
    ELSE Response(StatusInternalServerError, ErrInternalError)

\* Handler.CreateLeaderboard
HttpCreateLeaderboard(err, config) ==
    IF err = Nil THEN [Response(StatusCreated, Nil) EXCEPT !.config = config]
    ELSE IF err = ErrLeaderboardExists THEN Response(StatusConflict, err)
    ELSE IF err = ErrInvalidLeaderboard THEN Response(StatusBadRequest, err)
    ELSE Response(StatusInternalServerError, ErrInternalError)

\* Handler.DeleteLeaderboard
HttpDeleteLeaderboard(err) ==
    IF err = Nil THEN Response(StatusOK, Nil)
    ELSE IF err = ErrLeaderboardNotFound THEN Response(StatusNotFound, err)
    ELSE Response(StatusInternalServerError, ErrInternalError)

(***************************************************************************)
(* The administrative calls of the service.  Each action is one round trip *)
(* to a store, which may fail; the first one includes the arrival of the   *)
(* request.                                                                *)
(***************************************************************************)
\* administrative calls issued in one behaviour
MaxAdminCalls == 2

Stores == [leaderboards |-> leaderboards, player_scores |-> player_scores,
           score_events |-> score_events, zset |-> zset, meta |-> meta]

AdmFrame == UNCHANGED <<engineVars, readVars, hubVars, syncVars, tc, batch, kc, wk, main>>

\* the handler of the route that op names answers the error of its service call
Http(op, err, config) ==
    CASE op = "RemovePlayer" -> HttpRemovePlayer(err)
      [] op = "ResetLeaderboard" -> HttpResetLeaderboard(err)
      [] op = "CreateLeaderboard" -> HttpCreateLeaderboard(err, config)
      [] op = "DeleteLeaderboard" -> HttpDeleteLeaderboard(err)

AdmArrive(a, call) ==
    /\ adm[a].pc = "idle"
    /\ nadm < MaxAdminCalls
    /\ nadm' = nadm + 1
    /\ pre' = [pre EXCEPT ![a] = Stores]
    /\ adm' = [adm EXCEPT ![a] = call]

\* the request arrives at task a, which goes on at pc
AdmCall(a, op, lb, player, config, pc) ==
    AdmArrive(a, [AdmIdle EXCEPT !.pc = pc, !.op = op, !.lb = lb, !.player = player,
                                 !.config = config])

\* the request arrives at task a and is answered at once: the service call
\* returned err
AdmAnswer(a, op, lb, player, err) ==
    AdmArrive(a, [AdmIdle EXCEPT !.op = op, !.lb = lb, !.player = player, !.err = err,
                                 !.resp = Http(op, err, NoConfig)])

AdmGoto(a, pc) == adm' = [adm EXCEPT ![a].pc = pc]

\* the service call of task a returns err, which the handler answers
AdmReturn(a, err) ==
    adm' = [adm EXCEPT ![a].pc = "idle", ![a].err = err,
                       ![a].resp = Http(adm[a].op, err, adm[a].config)]

\* RemovePlayer: s.redis.RemovePlayer (ZREM)
RemovePlayerRedis(a, lb, playerID) ==
    /\ \/ /\ zset' = [zset EXCEPT ![lb] = ZRem(@, playerID)]
          /\ AdmCall(a, "RemovePlayer", lb, playerID, NoConfig,
                     "RemovePlayerPostgres")
       \/ /\ UNCHANGED zset
          /\ AdmAnswer(a, "RemovePlayer", lb, playerID,
                       Wrap("removing from redis",
                            Wrap("removing player", ErrDriver)))
    /\ UNCHANGED <<leaderboards, player_scores, score_events, meta>>
    /\ AdmFrame

\* RemovePlayer: s.postgres.RemovePlayer, whose failure is logged only
RemovePlayerPostgres(a) ==
    /\ adm[a].pc = "RemovePlayerPostgres"
    /\ \/ player_scores' = [player_scores EXCEPT ![adm[a].lb] = Del(@, adm[a].player)]
       \/ UNCHANGED player_scores
    /\ AdmReturn(a, Nil)
    /\ UNCHANGED <<leaderboards, score_events, zset, meta, nadm, pre>>
    /\ AdmFrame

\* ResetLeaderboard: s.postgres.LeaderboardExists
ResetLeaderboardExists(a, lb) ==
    /\ \/ /\ lb \in DOMAIN leaderboards
          /\ AdmCall(a, "ResetLeaderboard", lb, 0, NoConfig,
                     "ResetLeaderboardRedis")
       \/ /\ lb \notin DOMAIN leaderboards
          /\ AdmAnswer(a, "ResetLeaderboard", lb, 0,
                       ErrLeaderboardNotFound)
       \/ AdmAnswer(a, "ResetLeaderboard", lb, 0,
                    Wrap("checking leaderboard existence",
                         Wrap("checking leaderboard existence", ErrDriver)))
    /\ UNCHANGED storeVars
    /\ AdmFrame

\* ResetLeaderboard: s.redis.ResetLeaderboard (DEL of the sorted set)
ResetLeaderboardRedis(a) ==
    /\ adm[a].pc = "ResetLeaderboardRedis"
    /\ \/ /\ zset' = [zset EXCEPT ![adm[a].lb] = EmptyMap]
          /\ AdmGoto(a, "ResetLeaderboardPostgres")
       \/ /\ UNCHANGED zset
          /\ AdmReturn(a,
                       Wrap("resetting leaderboard in redis",
                            Wrap("resetting leaderboard", ErrDriver)))
    /\ UNCHANGED <<leaderboards, player_scores, score_events, meta, nadm, pre>>
    /\ AdmFrame

\* ResetLeaderboard: s.postgres.ResetLeaderboard (DELETE FROM player_scores)
ResetLeaderboardPostgres(a) ==
    /\ adm[a].pc = "ResetLeaderboardPostgres"
    /\ \/ /\ player_scores' = [player_scores EXCEPT ![adm[a].lb] = EmptyMap]
          /\ AdmReturn(a, Nil)
       \/ /\ UNCHANGED player_scores
          /\ AdmReturn(a,
                       Wrap("resetting leaderboard in postgres",
                            Wrap("resetting leaderboard", ErrDriver)))
    /\ UNCHANGED <<leaderboards, score_events, zset, meta, nadm, pre>>
    /\ AdmFrame

(***************************************************************************)
(* The sync worker (worker.SyncWorker): on every tick syncAll lists the    *)
(* leaderboards of PostgreSQL and, one after another, copies the Redis     *)
(* scores of each to player_scores in batches (SyncToDatabase).            *)
(***************************************************************************)
\* sync cycles run in one behaviour, and config.Sync.BatchSize
MaxCycles == 1
SyncBatchSize == 1

TcFrame == UNCHANGED <<leaderboards, score_events, zset, meta, engineVars, readVars,
                       hubVars, syncVars, adm, nadm, pre, batch, kc, wk, main>>

\* the loop of syncAll goes on to the next leaderboard, or the cycle ends
TcNextLeaderboard ==
    IF Len(tc.todo) > 1
    THEN [tc EXCEPT !.pc = "GetAllScores", !.todo = Tail(@), !.scores = EmptyMap]
    ELSE [tc EXCEPT !.pc = "idle", !.todo = <<>>, !.scores = EmptyMap, !.cycles = @ + 1]

\* what is kept for looking at it afterwards: the leaderboards the cycle
\* listed, the leaderboards whose SyncToDatabase returned an error (the
\* errorCount of syncAll), and the BatchUpsertScores calls of every cycle
TcBegin(o) == [tc EXCEPT !.listed = o, !.errors = {}]
TcFailed(t) == [t EXCEPT !.errors = @ \cup {Head(tc.todo)}]
TcCalled(t, b) ==
    [t EXCEPT !.calls = Append(@, [cycle |-> tc.cycles, lb |-> Head(tc.todo), players |-> b])]

\* syncAll begins: postgres.ListLeaderboards
SyncAllBegin ==
    /\ tc.pc = "idle"
    /\ \/ \E o \in Orderings(DOMAIN leaderboards) :
             tc' = IF o = <<>> THEN [TcBegin(o) EXCEPT !.cycles = @ + 1]
                   ELSE [TcBegin(o) EXCEPT !.pc = "GetAllScores", !.todo = o]
       \/ tc' = [TcBegin(<<>>) EXCEPT !.cycles = @ + 1]
    /\ UNCHANGED player_scores
    /\ TcFrame

\* the ticker fires, MaxCycles times at most
SyncAllListLeaderboards ==
    /\ tc.cycles < MaxCycles
    /\ SyncAllBegin

\* SyncToDatabase: redis.GetAllScores; an error or an empty result ends the
\* work on this leaderboard
SyncToDatabaseGetAllScores ==
    /\ tc.pc = "GetAllScores"
    /\ \/ tc' = IF DOMAIN zset[Head(tc.todo)] = {} THEN TcNextLeaderboard
                ELSE [tc EXCEPT !.pc = "BatchUpsertScores", !.scores = zset[Head(tc.todo)]]
       \/ tc' = TcFailed(TcNextLeaderboard)
    /\ UNCHANGED player_scores
    /\ TcFrame

BatchesWhole(scores) == {DOMAIN scores}

\* the entries of the next batch: the map is ranged over in any order, and a
\* batch is sent when it holds batchSize entries or the map is exhausted
Batches(scores) ==
    {b \in SUBSET (DOMAIN scores) :
        Cardinality(b) = IF Cardinality(DOMAIN scores) < SyncBatchSize
                         THEN Cardinality(DOMAIN scores) ELSE SyncBatchSize}

UpsertScoresKeepRow(rows, scores) ==
    [p \in (DOMAIN rows) \cup (DOMAIN scores) |->
        IF p \in DOMAIN rows THEN rows[p] ELSE scores[p]]

\* INSERT ... ON CONFLICT (leaderboard_id, player_id) DO UPDATE for every entry
UpsertScores(rows, scores) ==
    [p \in (DOMAIN rows) \cup (DOMAIN scores) |->
        IF p \in DOMAIN scores THEN scores[p] ELSE rows[p]]

\* SyncToDatabase: postgres.BatchUpsertScores of one batch.  The insert
\* violates the foreign key of player_scores when the leaderboard row is gone;
\* an error ends the work on this leaderboard
SyncToDatabaseBatchUpsertScores ==
    /\ tc.pc = "BatchUpsertScores"
    /\ LET lb == Head(tc.todo) IN
       \E b \in Batches(tc.scores) :
          \/ /\ lb \in DOMAIN leaderboards
             /\ player_scores' = [player_scores EXCEPT
                                    ![lb] = UpsertScores(@, Restrict(tc.scores, b))]
             /\ tc' = TcCalled(IF DOMAIN tc.scores = b THEN TcNextLeaderboard
                               ELSE [tc EXCEPT !.scores = Restrict(@, DOMAIN @ \ b)], b)
          \/ /\ UNCHANGED player_scores
             /\ tc' = TcCalled(TcFailed(TcNextLeaderboard), b)
    /\ TcFrame

\* the reconcile cycle together with submit, remove_player and
\* reset_leaderboard calls
InitSync ==
    /\ leaderboards = Put(EmptyMap, 1, DefaultConfig)
    /\ player_scores = NoScores
    /\ score_events = <<>>
    /\ \E z \in Maps({1, 2}, {1}) : zset = [NoScores EXCEPT ![1] = z]
    /\ meta = leaderboards
    /\ EngineIdle
    /\ reply = NoReply
    /\ HubFresh
    /\ sw = SyncIdle
    /\ OpsIdle

\* the submit calls of these runs
SyncSubmissions == [lb : {1}, player : SubmitPlayers, score : {2}]

NextSync ==
    \/ SyncAllListLeaderboards
    \/ SyncToDatabaseGetAllScores
    \/ SyncToDatabaseBatchUpsertScores
    \/ \E submission \in SyncSubmissions : SubmitScoreCall(1, submission)
    \/ SubmitScoreGetLeaderboard(1)
    \/ SubmitScoreReplace(1)
    \/ SubmitScoreRecordEvent(1)
    \/ \E lb \in LBIds, p \in SubmitPlayers : RemovePlayerRedis(1, lb, p)
    \/ RemovePlayerPostgres(1)
    \/ \E lb \in LBIds : ResetLeaderboardExists(1, lb)
    \/ ResetLeaderboardRedis(1)
    \/ ResetLeaderboardPostgres(1)

SpecSync == InitSync /\ [][NextSync]_vars

\* no request is being served and the sync worker is between two cycles
Quiescent ==
    /\ \A self \in Procs : rq[self].pc = "idle" /\ batch[self].pc = "idle"
    /\ \A a \in Admins : adm[a].pc = "idle"
    /\ tc.pc = "idle"

\* C11: once a sync cycle has completed and no operation is in flight, every
\* row (leaderboard, player) of player_scores has an entry for the same
\* (leaderboard, player) in the Redis index, whatever the interleaving of submit,
\* RemovePlayer and ResetLeaderboard with the snapshot and the batch upserts.
C11_ColdSubsetOfHot ==
    (tc.cycles > 0 /\ Quiescent) =>
        \A lb \in LBIds : DOMAIN player_scores[lb] \subseteq DOMAIN zset[lb]

(***************************************************************************)
(* CreateLeaderboard and DeleteLeaderboard.                                *)
(***************************************************************************)
\* the requests of CreateLeaderboard: an id, a name ("" or given), and the
\* sort order and update mode, either of which may be left out ("")
CreateRequests == [id : Topics, name : {"", "n"}, sort_order : {"", "asc"},
                   update_mode : {"", "best"}]

\* CreateLeaderboardRequest.ToConfig: the defaults for what was left out
ToConfig(req) ==
    [sort_order |-> IF req.sort_order = "" THEN "desc" ELSE req.sort_order,
     update_mode |-> IF req.update_mode = "" THEN "replace" ELSE req.update_mode]

\* CreateLeaderboard: the validation and s.postgres.LeaderboardExists
CreateLeaderboardExists(a, req) ==
    /\ \/ /\ req.id = EmptyId \/ req.name = ""
          /\ AdmAnswer(a, "CreateLeaderboard", req.id, 0,
                       ErrInvalidLeaderboard)
       \/ /\ req.id # EmptyId /\ req.name # ""
          /\ \/ AdmAnswer(a, "CreateLeaderboard", req.id, 0,
                          Wrap("checking leaderboard existence",
                               Wrap("checking leaderboard existence", ErrDriver)))
             \/ /\ req.id \in DOMAIN leaderboards
                /\ AdmAnswer(a, "CreateLeaderboard", req.id, 0,
                             ErrLeaderboardExists)
             \/ /\ req.id \notin DOMAIN leaderboards
                /\ AdmCall(a, "CreateLeaderboard", req.id, 0, ToConfig(req),
                           "CreateLeaderboardPostgres")
    /\ UNCHANGED storeVars
    /\ AdmFrame

\* CreateLeaderboard: s.postgres.CreateLeaderboard, an INSERT that fails on a
\* row with the same id
CreateLeaderboardPostgres(a) ==
    /\ adm[a].pc = "CreateLeaderboardPostgres"
    /\ \/ /\ adm[a].lb \notin DOMAIN leaderboards
          /\ leaderboards' = Put(leaderboards, adm[a].lb, adm[a].config)
          /\ AdmGoto(a, "SetLeaderboardMeta")
       \/ /\ adm[a].lb \in DOMAIN leaderboards
          /\ UNCHANGED leaderboards
          /\ AdmReturn(a,
                       Wrap("creating leaderboard in postgres",
                            Wrap("creating leaderboard", ErrUniqueViolation)))
       \/ /\ UNCHANGED leaderboards
          /\ AdmReturn(a,
                       Wrap("creating leaderboard in postgres",
                            Wrap("creating leaderboard", ErrDriver)))
    /\ UNCHANGED <<player_scores, score_events, zset, meta, nadm, pre>>
    /\ AdmFrame

\* CreateLeaderboard: s.redis.SetLeaderboardMeta, whose failure is logged only
CreateLeaderboardMeta(a) ==
    /\ adm[a].pc = "SetLeaderboardMeta"
    /\ \/ meta' = Put(meta, adm[a].lb, adm[a].config)
       \/ UNCHANGED meta
    /\ AdmReturn(a, Nil)
    /\ UNCHANGED <<leaderboards, player_scores, score_events, zset, nadm, pre>>
    /\ AdmFrame

\* DeleteLeaderboard: s.redis.DeleteLeaderboard, a pipeline of two DEL whose
\* failure is logged only and may leave either key in place
DeleteLeaderboardRedis(a, lb) ==
    /\ AdmCall(a, "DeleteLeaderboard", lb, 0, NoConfig,
               "DeleteLeaderboardPostgres")
    /\ \/ zset' = [zset EXCEPT ![lb] = EmptyMap] /\ meta' = Del(meta, lb)
       \/ zset' = [zset EXCEPT ![lb] = EmptyMap] /\ UNCHANGED meta
       \/ UNCHANGED zset /\ meta' = Del(meta, lb)
       \/ UNCHANGED <<zset, meta>>
    /\ UNCHANGED <<leaderboards, player_scores, score_events>>
    /\ AdmFrame

\* DeleteLeaderboard: s.postgres.DeleteLeaderboard; the rows of player_scores
\* go with the leaderboard (ON DELETE CASCADE), and deleting no row is
\* ErrLeaderboardNotFound, which DeleteLeaderboard returns wrapped
DeleteLeaderboardPostgres(a) ==
    /\ adm[a].pc = "DeleteLeaderboardPostgres"
    /\ \/ /\ adm[a].lb \in DOMAIN leaderboards
          /\ leaderboards' = Del(leaderboards, adm[a].lb)
          /\ player_scores' = [player_scores EXCEPT ![adm[a].lb] = EmptyMap]
          /\ AdmReturn(a, Nil)
       \/ /\ adm[a].lb \notin DOMAIN leaderboards
          /\ UNCHANGED <<leaderboards, player_scores>>
          /\ AdmReturn(a, Wrap("deleting leaderboard from postgres", ErrLeaderboardNotFound))
       \/ /\ UNCHANGED <<leaderboards, player_scores>>
          /\ AdmReturn(a,
                       Wrap("deleting leaderboard from postgres",
                            Wrap("deleting leaderboard", ErrDriver)))
    /\ UNCHANGED <<score_events, zset, meta, nadm, pre>>
    /\ AdmFrame

\* submit calls together with CreateLeaderboard and DeleteLeaderboard calls:
\* leaderboard 1 exists, with the scores of an earlier sync cycle or none in
\* player_scores
InitAdmin ==
    /\ leaderboards = Put(EmptyMap, 1, DefaultConfig)
    /\ \E z \in Maps({1, 2}, {1}) :
          /\ zset = [NoScores EXCEPT ![1] = z]
          /\ player_scores \in {NoScores, zset}
    /\ score_events = <<>>
    /\ meta = leaderboards
    /\ EngineIdle
    /\ reply = NoReply
    /\ HubFresh
    /\ sw = SyncIdle
    /\ OpsIdle

\* the submit calls of these runs
AdminSubmissions == [lb : LBIds, player : {1}, score : {2}]

NextLifecycle ==
    \/ \E submission \in AdminSubmissions : SubmitScoreCall(1, submission)
    \/ SubmitScoreGetLeaderboard(1)
    \/ SubmitScoreReplace(1)
    \/ SubmitScoreRecordEvent(1)
    \/ \E req \in CreateRequests : CreateLeaderboardExists(1, req)
    \/ CreateLeaderboardPostgres(1)
    \/ CreateLeaderboardMeta(1)
    \/ \E lb \in LBIds : DeleteLeaderboardRedis(1, lb)
    \/ DeleteLeaderboardPostgres(1)

SpecLifecycle == InitAdmin /\ [][NextLifecycle]_vars

\* C12: outside startup recovery the Redis index holds entries only for
\* leaderboards that have a row in the leaderboards table: whenever no submit,
\* CreateLeaderboard or DeleteLeaderboard call is in flight, a leaderboard id
\* that is absent from the table has no entry in Redis.
C12_HotOnlyForKnownLeaderboards ==
    Quiescent => \A lb \in LBIds : DOMAIN zset[lb] # {} => lb \in DOMAIN leaderboards

(***************************************************************************)
(* What SubmitScore returns.                                               *)
(***************************************************************************)
\* Handler.SubmitScore
HttpSubmitScore(err) ==
    IF err = Nil THEN Response(StatusOK, Nil)
    ELSE IF IsNotFoundError(err) THEN Response(StatusNotFound, err)
    ELSE Response(StatusInternalServerError, ErrInternalError)

\* task self takes a step
Steps(self) == rq'[self] # rq[self]

\* the leaderboard of the call that task self starts or goes on with
ServedLeaderboard(self) ==
    IF rq[self].pc = "idle" THEN rq'[self].sub.lb ELSE rq[self].sub.lb

\* the events of the log that name leaderboard lb
EventsOn(lb) == SelectSeq(score_events, LAMBDA e : e.lb = lb)

\* C17: a submit for a leaderboard id that has no row in the leaderboards
\* table returns an error that is ErrLeaderboardNotFound (which the handler
\* answers with 404) and changes neither the Redis index nor the event log: no
\* step of such a call changes either, and a leaderboard without a row never
\* gets an entry or an event.
C17_UnknownLeaderboardRejected ==
    /\ [](\A lb \in LBIds \ DOMAIN leaderboards :
             DOMAIN zset[lb] = {} /\ EventsOn(lb) = <<>>)
    /\ [][\A self \in Procs :
            (Steps(self) /\ ServedLeaderboard(self) \notin DOMAIN leaderboards) =>
                /\ zset' = zset /\ score_events' = score_events /\ accepted' = accepted
                /\ rq'[self].pc \in {"GetLeaderboard", "idle"}
                /\ rq'[self].pc = "idle" =>
                      /\ returned'[self].done
                      /\ ErrorsIs(returned'[self].err, ErrLeaderboardNotFound)
                      /\ HttpSubmitScore(returned'[self].err).status = StatusNotFound]_vars

\* a submit for leaderboard 2, which has no row, has returned its error while
\* a submit for leaderboard 1 was applied
C17_Witness ==
    /\ 2 \notin DOMAIN leaderboards
    /\ \E self \in Procs :
          /\ rq[self].pc = "idle" /\ returned[self].done
          /\ returned[self].err = <<"getting leaderboard config", "leaderboard not found">>
    /\ AcceptedOn(1) > 0
    /\ nsub = MaxSubmits

\* C18: a failed event append never fails the write.  The step that ends a
\* SubmitScore call returns nil and leaves the Redis index as the call's write
\* made it, whether or not the event was appended; an appended event carries
\* the submitted score, also when SetScoreIfBetter wrote nothing; and so on a
\* replace-mode leaderboard the score of a player is one of the accepted
\* scores however many events were lost.
C18_EventFailureKeepsWrite ==
    /\ [](\A lb \in DOMAIN leaderboards, p \in Players :
             (ModeIs(lb, "replace") /\ ~InFlight(lb, p) /\ AcceptedFor(lb, p) > 0) =>
                 /\ p \in DOMAIN zset[lb]
                 /\ zset[lb][p] \in AcceptedScores(lb, p))
    /\ [][\A self \in Procs :
            (Steps(self) /\ rq[self].pc = "RecordEvent") =>
                LET sub == rq[self].sub IN
                /\ returned'[self] = Return(Nil)
                /\ HttpSubmitScore(returned'[self].err).status = StatusOK
                /\ zset' = zset
                /\ accepted' = accepted (+) SetToBag({sub})
                /\ \/ score_events' = score_events
                   \/ score_events' =
                         Append(score_events,
                                [lb |-> sub.lb, player |-> sub.player,
                                 score |-> sub.score, event_type |-> "submit"])]_vars

\* on a best-mode descending leaderboard two submits for a player have
\* returned nil: the append of the first one's event failed and its score 2 is
\* in Redis; the second one's score 1 was not better, and its event is in the log
C18_Witness ==
    /\ ModeIs(1, "best") /\ HigherIsBetter(leaderboards[1])
    /\ \A self \in Procs : rq[self].pc = "idle"
    /\ \E p \in SubmitPlayers :
          /\ p \notin DOMAIN zset0[1]
          /\ AcceptedCount(1, p, 2) = 1 /\ AcceptedCount(1, p, 1) = 1
          /\ zset[1][p] = 2
          /\ score_events = <<[lb |-> 1, player |-> p, score |-> 1, event_type |-> "submit"]>>

(***************************************************************************)
(* SubmitScoreBatch: a loop of SubmitScore calls over batch.Scores, each   *)
(* of them the steps of SubmitScore above, run by the same task.           *)
(***************************************************************************)
\* the longest batch.Scores of the model
MaxBatchLen == 2

BatchSubmissions == [lb : LBIds, player : {1}, score : {1, 2}]
BatchScores == UNION {[1..n -> BatchSubmissions] : n \in 0..MaxBatchLen}

LoopNextStopOnError(i, err) == IF err = Nil THEN i + 1 ELSE MaxBatchLen + 1

\* for _, submission := range batch.Scores: an error is logged and the loop
\* goes on with the next index
LoopNext(i, err) == i + 1

\* what SubmitScoreBatch returns after the loop
BatchResult(errs) == Nil

\* Handler.SubmitScoreBatch
HttpSubmitScoreBatch(err) ==
    IF err = Nil THEN StatusOK ELSE StatusInternalServerError

BatchFrame == UNCHANGED <<readVars, hubVars, syncVars, adm, nadm, pre, tc, kc, wk, main>>

\* SubmitScoreBatch is called with batch.Scores = scores
BatchStart(self, scores) ==
    /\ batch[self].pc = "idle"
    /\ rq[self].pc = "idle"
    /\ batch' = [batch EXCEPT ![self] = [BatchIdle EXCEPT !.pc = "loop", !.scores = scores]]

\* POST /scores/batch: the handler rejects an empty batch and calls
\* SubmitScoreBatch with any other
SubmitScoreBatchCall(self, scores) ==
    /\ IF scores = <<>>
       THEN /\ batch[self].pc = "idle"
            /\ batch' = [batch EXCEPT ![self] = [BatchIdle EXCEPT !.status = StatusBadRequest]]
       ELSE /\ nsub + Len(scores) <= MaxSubmits
            /\ BatchStart(self, scores)
    /\ UNCHANGED <<storeVars, engineVars>>
    /\ BatchFrame

\* the errors of the SubmitScore calls that have returned, in list order
BatchErrs(self) ==
    IF batch[self].i = 0 THEN batch[self].errs
    ELSE Append(batch[self].errs, returned[self].err)

\* the SubmitScore call of the loop body has returned (or the loop begins):
\* the next submission is submitted
SubmitScoreBatchIterate(self) ==
    LET b == batch[self]
        next == LoopNext(b.i, IF b.i = 0 THEN Nil ELSE returned[self].err)
    IN
    /\ b.pc = "loop"
    /\ rq[self].pc = "idle"
    /\ next <= Len(b.scores)
    /\ batch' = [batch EXCEPT ![self].i = next, ![self].errs = BatchErrs(self)]
    /\ rq' = [rq EXCEPT ![self] = [Idle EXCEPT !.pc = "GetLeaderboard",
                                               !.sub = b.scores[next]]]
    /\ nsub' = nsub + 1
    /\ returned' = [returned EXCEPT ![self] = NoReturn]
    /\ UNCHANGED <<storeVars, zset0, accepted>>
    /\ BatchFrame

\* the loop has ended: SubmitScoreBatch returns and the handler answers
SubmitScoreBatchReturn(self) ==
    LET b == batch[self]
        next == LoopNext(b.i, IF b.i = 0 THEN Nil ELSE returned[self].err)
    IN
    /\ b.pc = "loop"
    /\ rq[self].pc = "idle"
    /\ next > Len(b.scores)
    /\ batch' = [batch EXCEPT ![self].pc = "idle", ![self].errs = BatchErrs(self),
                              ![self].ret = Return(BatchResult(BatchErrs(self))),
                              ![self].status =
                                  HttpSubmitScoreBatch(BatchResult(BatchErrs(self)))]
    /\ UNCHANGED <<storeVars, engineVars>>
    /\ BatchFrame

NextBatch ==
    \/ \E scores \in BatchScores : SubmitScoreBatchCall(1, scores)
    \/ SubmitScoreBatchIterate(1)
    \/ SubmitScoreBatchReturn(1)
    \/ SubmitScoreGetLeaderboard(1)
    \/ SubmitScoreReplace(1)
    \/ SubmitScoreIncrement(1)
    \/ SubmitScoreBestRead(1)
    \/ SubmitScoreBestWrite(1)
    \/ SubmitScoreRecordEvent(1)

SpecBatch == Init /\ [][NextBatch]_vars

\* what one SubmitScore does to the sorted set of its leaderboard
Applied(z, sub, lbConfig) ==
    IF lbConfig.update_mode = "increment" THEN ZIncrBy(z, sub.player, sub.score)
    ELSE IF lbConfig.update_mode = "best"
              /\ sub.player \in DOMAIN z
              /\ ~IsBetter(sub.score, z[sub.player], HigherIsBetter(lbConfig))
         THEN z
    ELSE ZAdd(z, sub.player, sub.score)

\* the sorted sets after the submissions of scores were applied one after
\* another in list order, those that name an unknown leaderboard being skipped
RECURSIVE ApplyInOrder(_, _)
ApplyInOrder(zs, scores) ==
    IF scores = <<>> THEN zs
    ELSE LET sub == Head(scores) IN
         ApplyInOrder(IF sub.lb \in DOMAIN leaderboards
                      THEN [zs EXCEPT ![sub.lb] = Applied(@, sub, leaderboards[sub.lb])]
                      ELSE zs,
                      Tail(scores))

\* C19: SubmitScoreBatch applies its submissions in list order, and a failing
\* submission does not keep a later one from being applied: between two
\* submissions of the first batch Redis is what applying the submissions so
\* far, in list order and skipping those for an unknown leaderboard, gives,
\* and when the batch has returned that holds for the whole list, with one
\* error per submission for an unknown leaderboard.
C19_BatchInListOrder ==
    \A self \in Procs :
        LET b == batch[self] IN
        (b.scores # <<>> /\ rq[self].pc = "idle" /\ nsub = b.i) =>
            /\ zset = ApplyInOrder(zset0, SubSeq(b.scores, 1, b.i))
            /\ b.pc = "idle" =>
                  /\ b.i = Len(b.scores)
                  /\ Len(b.errs) = Len(b.scores)
                  /\ \A i \in 1..Len(b.scores) :
                        b.errs[i] = Nil <=> b.scores[i].lb \in DOMAIN leaderboards

\* a batch whose first submission names the unknown leaderboard 2 has
\* returned, and its second submission changed the score of player 1
C19_Witness ==
    LET b == batch[1] IN
    /\ b.pc = "idle" /\ b.ret.done /\ nsub = 2
    /\ Len(b.scores) = 2
    /\ b.scores[1].lb = 2 /\ b.errs[1] # Nil
    /\ b.scores[2].lb = 1 /\ b.errs[2] = Nil
    /\ 1 \in DOMAIN zset0[1]
    /\ zset[1][1] # zset0[1][1]

\* C20: SubmitScoreBatch reports the errors of its failed submissions: when the
\* call has returned, its result is an error (and the response is not 200) if
\* and only if at least one submission of the batch failed.
C20_BatchReportsFailures ==
    \A self \in Procs :
        LET b == batch[self]
            failed == \E i \in 1..Len(b.errs) : b.errs[i] # Nil
        IN
        b.ret.done => /\ failed <=> b.ret.err # Nil
                      /\ failed <=> b.status # StatusOK

(***************************************************************************)
(* The administrative calls issued one after another, with reads between   *)
(* them.                                                                   *)
(***************************************************************************)
ErrNoLeaderboard == [err |-> "leaderboard not found", entries |-> <<>>]

\* service.LeaderboardService.GetStats: ZCARD, GetTopN(1) and GetBottomN(1)
GetStats(z) ==
    LET all == ZRevRangeWithScores(z, 0, -1) IN
    Ok(<<[TotalPlayers |-> Cardinality(DOMAIN z),
          TopScore |-> IF all = <<>> THEN 0 ELSE all[1].Score,
          LowestScore |-> IF all = <<>> THEN 0 ELSE all[Len(all)].Score]>>)

\* GET /leaderboards/{id}/stats
ReadStats(lb) ==
    /\ reply' = Reply("stats", lb, 0, GetStats(zset[lb]))
    /\ UNCHANGED <<storeVars, engineVars, hubVars, syncVars, opsVars>>

\* GET /leaderboards/{id}: postgres.GetLeaderboard
ReadLeaderboard(lb) ==
    /\ reply' = Reply("get", lb, 0, IF lb \in DOMAIN leaderboards
                                    THEN Ok(<<leaderboards[lb]>>) ELSE ErrNoLeaderboard)
    /\ UNCHANGED <<storeVars, engineVars, hubVars, syncVars, opsVars>>

\* the CreateLeaderboard requests of these runs
AdminRequests == {req \in CreateRequests : req.sort_order = "asc" /\ req.update_mode = ""}

NextAdmin ==
    \/ \E req \in AdminRequests : CreateLeaderboardExists(1, req)
    \/ CreateLeaderboardPostgres(1)
    \/ CreateLeaderboardMeta(1)
    \/ \E lb \in LBIds : DeleteLeaderboardRedis(1, lb)
    \/ DeleteLeaderboardPostgres(1)
    \/ \E lb \in LBIds : ResetLeaderboardExists(1, lb)
    \/ ResetLeaderboardRedis(1)
    \/ ResetLeaderboardPostgres(1)
    \/ \E lb \in LBIds, playerID \in SubmitPlayers : RemovePlayerRedis(1, lb, playerID)
    \/ RemovePlayerPostgres(1)
    \/ \E lb \in LBIds : ReadTopN(lb, 1)
    \/ \E lb \in LBIds : ReadRange(lb, 0, 1)
    \/ \E lb \in LBIds : ReadAroundPlayer(lb, 1, 1)
    \/ \E lb \in LBIds : ReadPlayerRank(lb, 1)
    \/ \E lb \in LBIds : ReadStats(lb)
    \/ \E lb \in LBIds : ReadLeaderboard(lb)

SpecAdmin == InitAdmin /\ [][NextAdmin]_vars

\* the last administrative call was op on lb and was answered with status
Answered(op, lb, status) ==
    /\ adm[1].pc = "idle" /\ adm[1].op = op /\ adm[1].lb = lb
    /\ adm[1].resp.status = status

\* C14: after DeleteLeaderboard(lb) has succeeded every read on lb (top, range,
\* around, player rank, stats with its count, the configuration) answers
\* leaderboard not found, until a leaderboard with that id is created again.
C14_ReadsAfterDeleteNotFound ==
    [][\A lb \in LBIds :
          (Answered("DeleteLeaderboard", lb, StatusOK) /\ reply' # reply /\ reply'.lb = lb)
              => reply'.err = "leaderboard not found"]_vars

\* the last administrative call of task 1 was op on lb and has been answered
Called(op, lb) == adm[1].pc = "idle" /\ adm[1].op = op /\ adm[1].lb = lb

\* C15: after ResetLeaderboard(lb) has succeeded on a leaderboard that had a
\* row, Redis has no entry for lb (its count is 0 and its top N is empty),
\* player_scores has no row for lb, and the leaderboards table and everything
\* of the other leaderboards are as before the call; on a leaderboard without
\* a row the call answers leaderboard not found (unless the existence check
\* itself failed) and changes nothing.
C15_ResetClearsScoresOnly ==
    \A lb \in LBIds :
        Called("ResetLeaderboard", lb) =>
            /\ (adm[1].resp.status = StatusOK) =>
                  /\ lb \in DOMAIN pre[1].leaderboards
                  /\ GetStats(zset[lb]).entries[1].TotalPlayers = 0
                  /\ \A n \in ReadLimits : ServiceGetTopN(zset[lb], n) = Ok(<<>>)
                  /\ DOMAIN player_scores[lb] = {}
                  /\ leaderboards = pre[1].leaderboards
                  /\ meta = pre[1].meta /\ score_events = pre[1].score_events
                  /\ \A other \in LBIds \ {lb} :
                        /\ zset[other] = pre[1].zset[other]
                        /\ player_scores[other] = pre[1].player_scores[other]
            /\ (lb \notin DOMAIN pre[1].leaderboards) =>
                  /\ Stores = pre[1]
                  /\ \/ /\ adm[1].err = ErrLeaderboardNotFound
                        /\ adm[1].resp = Response(StatusNotFound, ErrLeaderboardNotFound)
                     \/ /\ ErrorsIs(adm[1].err, ErrDriver)
                        /\ adm[1].resp.status = StatusInternalServerError

\* a reset of leaderboard 1, which had scores in Redis and in player_scores,
\* has succeeded
C15_Witness ==
    /\ Called("ResetLeaderboard", 1) /\ adm[1].resp.status = StatusOK
    /\ DOMAIN pre[1].zset[1] # {} /\ DOMAIN pre[1].player_scores[1] # {}
    /\ DOMAIN zset[1] = {} /\ DOMAIN player_scores[1] = {}
    /\ leaderboards[1] = pre[1].leaderboards[1]

\* C16: CreateLeaderboard with an id that has a row already returns
\* ErrLeaderboardExists, answered with 409 and the error "leaderboard already
\* exists" (only a request without a name is answered with 400 and a failed
\* existence check with 500), and in every case the configurations and all
\* player scores are as before the call.
C16_CreateExistingConflicts ==
    \A lb \in LBIds :
        (Called("CreateLeaderboard", lb) /\ lb \in DOMAIN pre[1].leaderboards) =>
            /\ Stores = pre[1]
            /\ \/ /\ adm[1].err = ErrLeaderboardExists
                  /\ adm[1].resp.status = StatusConflict
                  /\ ErrorText(adm[1].resp.error) = <<"leaderboard already exists">>
               \/ /\ adm[1].err = ErrInvalidLeaderboard
                  /\ adm[1].resp.status = StatusBadRequest
               \/ /\ ErrorsIs(adm[1].err, ErrDriver)
                  /\ adm[1].resp.status = StatusInternalServerError

\* a CreateLeaderboard for leaderboard 1, which exists with scores, was
\* answered with 409
C16_Witness ==
    /\ Called("CreateLeaderboard", 1) /\ adm[1].resp.status = StatusConflict
    /\ DOMAIN player_scores[1] # {} /\ DOMAIN zset[1] # {}
    /\ leaderboards[1] = DefaultConfig

(***************************************************************************)
(* The Kafka consumer (internal/kafka/consumer.go): ConsumeClaim for one   *)
(* partition.  Its SubmitScoreBatch calls are run by request task          *)
(* KafkaTask, and ConsumeClaim waits for each of them to return.           *)
(***************************************************************************)
\* messages produced to the partition in one behaviour, and config.Kafka.BatchSize
MaxMessages == 5
KafkaBatchSize == 2

KafkaTask == 2

\* message.Value: bytes that are no JSON object, or a JSON object with some
\* of the fields player_id, leaderboard_id and score; the produced
\* submissions have different scores, which tells them apart
Garbage == [parses |-> FALSE, fields |-> EmptyMap]
Json(fields) == [parses |-> TRUE, fields |-> fields]
KafkaValues(offset) ==
    {Garbage,
     Json("player_id" :> 1),
     Json("player_id" :> 1 @@ "leaderboard_id" :> 1 @@ "score" :> offset + 1)}

\* a field of the decoded struct: the zero value when the object lacks it
Field(fields, name) == IF name \in DOMAIN fields THEN fields[name] ELSE 0

\* json.Unmarshal(message.Value, &submission)
Unmarshal(value) ==
    [err |-> ~value.parses,
     submission |-> [lb |-> Field(value.fields, "leaderboard_id"),
                     player |-> Field(value.fields, "player_id"),
                     score |-> Field(value.fields, "score")]]

ValidSubmissionPlayerOnly(submission) == submission.player # EmptyId

\* the validation of ConsumeClaim: neither id is ""
ValidSubmission(submission) ==
    ~(submission.player = EmptyId \/ submission.lb = EmptyId)

KcFrame == UNCHANGED <<storeVars, engineVars, readVars, hubVars, syncVars,
                       adm, nadm, pre, tc, wk, main>>

\* a producer appends a message to the partition
KafkaProduce(value) ==
    /\ kc.noffset < MaxMessages
    /\ kc.case # "closed"
    /\ kc' = [kc EXCEPT !.messages = Append(@, [offset |-> kc.noffset, value |-> value]),
                        !.noffset = @ + 1]
    /\ UNCHANGED batch
    /\ KcFrame

\* processBatch, called in the select case named case: nothing for an empty
\* batch, else SubmitScoreBatch is called with it; then is what follows
ProcessBatch(k, case, then) ==
    IF k.batch = <<>>
    THEN /\ kc' = [k EXCEPT !.case = case,
                            !.pc = IF then = "return" THEN "returned" ELSE "select"]
         /\ UNCHANGED batch
    ELSE /\ kc' = [k EXCEPT !.case = case, !.pc = "SubmitScoreBatch", !.then = then,
                            !.calls = Append(@, k.batch)]
         /\ BatchStart(KafkaTask, k.batch)

\* case message, ok := <-claim.Messages(), with a message
ConsumeClaimMessage ==
    /\ kc.pc = "select"
    /\ kc.messages # <<>>
    /\ LET message == Head(kc.messages)
           u == Unmarshal(message.value)
           taken == [kc EXCEPT !.messages = Tail(@), !.case = "message",
                               !.consumed = Append(@, message),
                               !.marked = Append(@, message.offset)]
           appended == [taken EXCEPT !.batch = Append(@, u.submission)]
       IN IF u.err \/ ~ValidSubmission(u.submission)
          THEN kc' = taken /\ UNCHANGED batch
          ELSE IF Len(appended.batch) >= KafkaBatchSize
          THEN ProcessBatch(appended, "message", "select")
          ELSE kc' = appended /\ UNCHANGED batch
    /\ KcFrame

\* case <-batchTimer.C
ConsumeClaimTimer ==
    /\ kc.pc = "select"
    /\ ProcessBatch(kc, "timer", "select")
    /\ KcFrame

\* case <-session.Context().Done(): the session is cancelled
ConsumeClaimDone ==
    /\ kc.pc = "select"
    /\ ProcessBatch(kc, "done", "return")
    /\ KcFrame

\* case message, ok := <-claim.Messages(), the channel closed and empty
ConsumeClaimClosed ==
    /\ kc.pc = "select"
    /\ kc.messages = <<>>
    /\ ProcessBatch(kc, "closed", "return")
    /\ KcFrame

ConsumeProcessBatchReturnKeepsBatch ==
    /\ kc.pc = "SubmitScoreBatch"
    /\ batch[KafkaTask].pc = "idle"
    /\ kc' = [kc EXCEPT !.pc = IF kc.then = "return" THEN "returned" ELSE "select"]
    /\ UNCHANGED batch
    /\ KcFrame

\* SubmitScoreBatch has returned: batch = batch[:0], and ConsumeClaim goes on
\* with its loop or returns
ConsumeProcessBatchReturn ==
    /\ kc.pc = "SubmitScoreBatch"
    /\ batch[KafkaTask].pc = "idle"
    /\ kc' = [kc EXCEPT !.batch = <<>>,
                        !.pc = IF kc.then = "return" THEN "returned" ELSE "select"]
    /\ UNCHANGED batch
    /\ KcFrame

NextKafka ==
    \/ \E value \in KafkaValues(kc.noffset) : KafkaProduce(value)
    \/ ConsumeClaimMessage
    \/ ConsumeClaimTimer
    \/ ConsumeClaimDone
    \/ ConsumeClaimClosed
    \/ ConsumeProcessBatchReturn
    \/ SubmitScoreBatchIterate(KafkaTask)
    \/ SubmitScoreBatchReturn(KafkaTask)
    \/ SubmitScoreGetLeaderboard(KafkaTask)
    \/ SubmitScoreReplace(KafkaTask)
    \/ SubmitScoreRecordEvent(KafkaTask)

\* one known leaderboard, empty stores, the consumer at its select
InitKafka ==
    /\ leaderboards = Put(EmptyMap, 1, DefaultConfig)
    /\ player_scores = NoScores
    /\ score_events = <<>>
    /\ zset = NoScores
    /\ meta = leaderboards
    /\ EngineIdle
    /\ reply = NoReply
    /\ HubFresh
    /\ sw = SyncIdle
    /\ OpsIdle

SpecKafka == InitKafka /\ [][NextKafka]_vars

\* a message that parses and has non-empty player_id and leaderboard_id
WellFormed(message) ==
    /\ message.value.parses
    /\ {"player_id", "leaderboard_id"} \subseteq DOMAIN message.value.fields
    /\ message.value.fields["player_id"] # EmptyId
    /\ message.value.fields["leaderboard_id"] # EmptyId

\* the submissions of the well-formed messages of a sequence, in its order
RECURSIVE WellFormedSubmissions(_)
WellFormedSubmissions(messages) ==
    IF messages = <<>> THEN <<>>
    ELSE LET message == Head(messages)
             rest == WellFormedSubmissions(Tail(messages))
         IN IF WellFormed(message)
            THEN <<[lb |-> message.value.fields["leaderboard_id"],
                    player |-> message.value.fields["player_id"],
                    score |-> Field(message.value.fields, "score")]>> \o rest
            ELSE rest

RECURSIVE Flatten(_)
Flatten(seqs) == IF seqs = <<>> THEN <<>> ELSE Head(seqs) \o Flatten(Tail(seqs))

\* the submissions ConsumeClaim holds for its next SubmitScoreBatch call
KafkaPending == IF kc.pc = "select" THEN kc.batch ELSE <<>>

\* C13: the submissions passed to SubmitScoreBatch, followed by the ones
\* still held for the next call, are exactly the well-formed messages
\* consumed, each once and in consumption order; every SubmitScoreBatch call
\* of ConsumeClaim is non-empty and the running one processes the batch it was
\* given; nothing is held once a flush trigger was handled (the batch is
\* shorter than the batch size at the select, empty after the timer, and
\* empty when ConsumeClaim has returned on cancellation or partition close);
\* and every consumed message, malformed or not, is marked.
C13_IngestorPassesWellFormedMessages ==
    /\ Flatten(kc.calls) \o KafkaPending = WellFormedSubmissions(kc.consumed)
    /\ \A i \in DOMAIN kc.calls : kc.calls[i] # <<>>
    /\ batch[KafkaTask].pc # "idle" =>
          /\ kc.pc = "SubmitScoreBatch"
          /\ batch[KafkaTask].scores = kc.calls[Len(kc.calls)]
    /\ Len(KafkaPending) < KafkaBatchSize
    /\ kc.pc = "select" /\ kc.case = "timer" => kc.batch = <<>>
    /\ kc.pc = "returned" =>
          /\ kc.case \in {"done", "closed"}
          /\ kc.batch = <<>>
          /\ Flatten(kc.calls) = WellFormedSubmissions(kc.consumed)
    /\ kc.marked = [i \in DOMAIN kc.consumed |-> kc.consumed[i].offset]

\* a message that does not parse and one without leaderboard_id were
\* consumed, a full batch and then a shorter one were passed on, and
\* ConsumeClaim has returned
C13_Witness ==
    /\ kc.pc = "returned"
    /\ \E i \in DOMAIN kc.consumed : ~kc.consumed[i].value.parses
    /\ \E i \in DOMAIN kc.consumed :
          /\ kc.consumed[i].value.parses
          /\ ~WellFormed(kc.consumed[i])
    /\ Len(kc.calls) = 2
    /\ Len(kc.calls[1]) = KafkaBatchSize
    /\ Len(kc.calls[2]) < KafkaBatchSize
    /\ kc.calls[1][1].score # kc.calls[1][2].score

(***************************************************************************)
(* RemovePlayer.                                                           *)
(***************************************************************************)
\* C21: a RemovePlayer(lb, player) whose ZREM went through succeeds (200),
\* whether or not the player was in the sorted set or in player_scores;
\* after it the player is not in the sorted set of lb (GetPlayerRank
\* answers player not found), every other entry of Redis is as before, and
\* PostgreSQL has lost at most the player's row; the call on a player that is
\* in neither store changes nothing, so a second RemovePlayer leaves what the
\* first one left.  A call that failed changed nothing.
C21_RemovePlayerIdempotent ==
    \A lb \in LBIds, playerID \in SubmitPlayers :
        (Called("RemovePlayer", lb) /\ adm[1].player = playerID) =>
            /\ leaderboards = pre[1].leaderboards /\ meta = pre[1].meta
            /\ score_events = pre[1].score_events
            /\ IF adm[1].err = Nil
               THEN /\ adm[1].resp = Response(StatusOK, Nil)
                    /\ playerID \notin DOMAIN zset[lb]
                    /\ GetPlayerRank(zset[lb], playerID) = ErrPlayerNotFound
                    /\ \A other \in Players \ {playerID} :
                          ZScore(zset[lb], other) = ZScore(pre[1].zset[lb], other)
                    /\ \A otherLB \in LBIds \ {lb} : zset[otherLB] = pre[1].zset[otherLB]
                    /\ playerID \notin DOMAIN pre[1].zset[lb] => zset = pre[1].zset
                    /\ player_scores \in
                          {pre[1].player_scores,
                           [pre[1].player_scores EXCEPT ![lb] = Del(@, playerID)]}
                    /\ playerID \notin DOMAIN pre[1].player_scores[lb] =>
                          player_scores = pre[1].player_scores
               ELSE /\ Stores = pre[1]
                    /\ ErrorsIs(adm[1].err, ErrDriver)
                    /\ adm[1].resp.status = StatusInternalServerError

\* the second of two RemovePlayer calls for player 1 of leaderboard 1 has
\* succeeded: the player was gone from Redis already, the other player is
\* still there, and the row that the first call left in player_scores is
\* removed now
C21_Witness ==
    /\ Called("RemovePlayer", 1) /\ adm[1].player = 1 /\ adm[1].resp.status = StatusOK
    /\ nadm = 2
    /\ 1 \notin DOMAIN pre[1].zset[1] /\ 2 \in DOMAIN zset[1]
    /\ 1 \in DOMAIN pre[1].player_scores[1]
    /\ DOMAIN player_scores[1] = {2}

(***************************************************************************)
(* The shape of the listings.                                              *)
(***************************************************************************)
\* the limit and the window that top_n and around are to work with for a
\* requested n and r: the default limit for no n, n clamped to
\* [1, max_limit], r clamped to [1, 50]
ClampedLimit(n) == IF n <= 0 THEN DefaultLimit ELSE IF n > MaxLimit THEN MaxLimit ELSE n
ClampedWindow(r) == IF r < 1 THEN 1 ELSE IF r > 50 THEN 50 ELSE r
\* r with 5 in the place of an r below 1, and 50 in the place of one above 50
WindowOrDefault(r) == IF r < 1 THEN 5 ELSE IF r > 50 THEN 50 ELSE r

AroundWindow(r) ==
    (reply.op = "around") =>
        LET z == zset[reply.lb]
            total == Cardinality(DOMAIN z)
        IN IF reply.player \in DOMAIN z
           THEN LET k == GetPlayerRank(z, reply.player).entries[1].Rank
                    lo == IF k - r < 1 THEN 1 ELSE k - r
                    hi == IF k + r > total THEN total ELSE k + r
                IN /\ reply.err = ""
                   /\ Len(reply.entries) = hi - lo + 1
                   /\ \A i \in DOMAIN reply.entries :
                         /\ reply.entries[i].Rank = lo + (i - 1)
                         /\ GetPlayerRank(z, reply.entries[i].PlayerID).entries
                               = <<reply.entries[i]>>
                   /\ \E i \in DOMAIN reply.entries :
                         reply.entries[i].PlayerID = reply.player
           ELSE reply.err = "player not found" /\ reply.entries = <<>>

\* C23: with no write in between, around(lb, player, r) answers the window
\* of radius r around the player, r clamped to [1, 50], and player not found
\* for an absent player.
C23_AroundWindowClamped == AroundWindow(ClampedWindow(reply.arg))

\* C23 (amended): with no write in between, around(lb, player, r) answers
\* the window of radius r around the player, where an r below 1 is replaced
\* by 5 and an r above 50 by 50, and player not found for an absent player.
C23_AroundWindowOrDefault == AroundWindow(WindowOrDefault(reply.arg))

\* around(player, 1) was answered for the best of three players: ranks 1
\* and 2, without the third
C23_Witness ==
    /\ reply.op = "around" /\ reply.arg = 1 /\ reply.err = ""
    /\ Cardinality(DOMAIN zset[reply.lb]) = 3
    /\ Len(reply.entries) = 2
    /\ reply.entries[1].PlayerID = reply.player

(***************************************************************************)
(* Unregistering a client.                                                 *)
(***************************************************************************)
\* Run takes client c from the unregister channel
Unregisters(c) == cl[c].rp = "unregistering" /\ cl'[c].rp = "closed"

\* C24: when Run handles the unregister of a registered client, the client
\* leaves allClients and every set of clients, the other members of these
\* sets stay, and its send channel, open until then, is closed; for a client
\* that is not registered nothing changes; the send channel of a client is
\* closed by this step only and stays closed; and at no time does clients
\* hold an empty set for a leaderboard.
C24_UnregisterRemovesAndCloses ==
    /\ [](\A lb \in DOMAIN clients : clients[lb] # {})
    /\ [][\A c \in Clients :
            /\ Unregisters(c) =>
                  IF c \in allClients
                  THEN /\ allClients' = allClients \ {c}
                       /\ \A lb \in DOMAIN clients' : c \notin clients'[lb]
                       /\ \A lb \in DOMAIN clients :
                             clients[lb] \ {c} # {} =>
                                 /\ lb \in DOMAIN clients'
                                 /\ clients'[lb] = clients[lb] \ {c}
                       /\ DOMAIN clients' \subseteq DOMAIN clients
                       /\ ~sendClosed[c]
                       /\ sendClosed' = [sendClosed EXCEPT ![c] = TRUE]
                  ELSE UNCHANGED <<allClients, clients, sendClosed>>
            /\ sendClosed'[c] # sendClosed[c] => Unregisters(c) /\ sendClosed'[c]
         ]_vars

\* client 2, which had subscribed to leaderboard 1 next to client 1, has
\* been unregistered: its send channel is closed, and client 1 is still
\* registered and subscribed
C24_Witness ==
    /\ cl[2].rp = "closed" /\ sendClosed[2] /\ 2 \notin allClients
    /\ \E i \in DOMAIN delivered[2] : delivered[2][i] = Ack("subscribed", 1)
    /\ subscribe = <<>>
    /\ allClients = {1} /\ ~sendClosed[1]
    /\ clients = Put(EmptyMap, 1, {1})

(***************************************************************************)
(* The SyncWorker's Start, Stop and run.  A run goroutine is at its select *)
(* or, when tc is not idle, inside the syncAll of its last tick.  Closing  *)
(* a closed channel panics, which ends the process.                        *)
(***************************************************************************)
\* calls of Start and Stop issued in one behaviour
MaxWorkerCalls == 4

WkFrame == UNCHANGED <<storeVars, engineVars, readVars, hubVars, syncVars,
                       adm, nadm, pre, batch, kc, main>>

\* wk.during records whether a syncAll was under way when close(w.stopCh) ran.
\* the run goroutines that are at their select
AtSelect == wk.loops - (IF tc.pc = "idle" THEN 0 ELSE 1)

WorkerCall(c) ==
    /\ ~wk.panic
    /\ wk.call[c] = "idle"
    /\ wk.ncalls < MaxWorkerCalls

\* SyncWorker.Start: under the mutex, nothing when running, else running is
\* set and a run goroutine is started
WorkerStart(c) ==
    /\ WorkerCall(c)
    /\ wk' = IF wk.running
             THEN [wk EXCEPT !.ncalls = @ + 1]
             ELSE [wk EXCEPT !.ncalls = @ + 1, !.running = TRUE, !.loops = @ + 1]
    /\ UNCHANGED tc
    /\ WkFrame

\* SyncWorker.Stop: the check of running under the mutex; Stop returns when
\* the worker is not running
WorkerStopCheck(c) ==
    /\ WorkerCall(c)
    /\ wk' = IF wk.running
             THEN [wk EXCEPT !.ncalls = @ + 1, !.call[c] = "close"]
             ELSE [wk EXCEPT !.ncalls = @ + 1, !.stopped = @ + 1]
    /\ UNCHANGED tc
    /\ WkFrame

\* SyncWorker.Stop: close(w.stopCh)
WorkerStopClose(c) ==
    /\ ~wk.panic
    /\ wk.call[c] = "close"
    /\ wk' = IF wk.stopCh = "closed"
             THEN [wk EXCEPT !.panic = TRUE]
             ELSE [wk EXCEPT !.stopCh = "closed", !.call[c] = "wait",
                             !.during = (tc.pc # "idle")]
    /\ UNCHANGED tc
    /\ WkFrame

StopMayReturnAtOnce(w) == TRUE

\* <-w.doneCh is over: the channel is closed (nothing is ever sent on it)
StopMayReturn(w) == w.doneCh = "closed"

\* SyncWorker.Stop: <-w.doneCh, then running is reset and Stop returns
WorkerStopWait(c) ==
    /\ ~wk.panic
    /\ wk.call[c] = "wait"
    /\ StopMayReturn(wk)
    /\ wk' = [wk EXCEPT !.running = FALSE, !.call[c] = "idle", !.stopped = @ + 1]
    /\ UNCHANGED tc
    /\ WkFrame

\* run: case <-ticker.C, syncAll begins
RunTick ==
    /\ ~wk.panic
    /\ AtSelect > 0
    /\ SyncAllListLeaderboards

\* run: case <-w.stopCh, return, and the deferred close(w.doneCh)
RunReturn ==
    /\ ~wk.panic
    /\ AtSelect > 0
    /\ wk.stopCh = "closed"
    /\ wk' = IF wk.doneCh = "closed"
             THEN [wk EXCEPT !.loops = @ - 1, !.panic = TRUE]
             ELSE [wk EXCEPT !.loops = @ - 1, !.doneCh = "closed"]
    /\ UNCHANGED tc
    /\ WkFrame

\* the steps of syncAll after its first
SyncAllStep ==
    /\ ~wk.panic
    /\ \/ SyncToDatabaseGetAllScores
       \/ SyncToDatabaseBatchUpsertScores

\* one leaderboard with a score in Redis that PostgreSQL has not got yet
InitWorker ==
    /\ leaderboards = Put(EmptyMap, 1, DefaultConfig)
    /\ player_scores = NoScores
    /\ score_events = <<>>
    /\ zset = [NoScores EXCEPT ![1] = Put(EmptyMap, 1, 1)]
    /\ meta = leaderboards
    /\ EngineIdle
    /\ reply = NoReply
    /\ HubFresh
    /\ sw = SyncIdle
    /\ OpsIdle

\* Start is called by any task at any time, Stop by task 1 only, so that no
\* two Stop calls overlap
NextWorker ==
    \/ \E c \in Callers : WorkerStart(c)
    \/ WorkerStopCheck(1)
    \/ WorkerStopClose(1)
    \/ WorkerStopWait(1)
    \/ RunTick
    \/ RunReturn
    \/ SyncAllStep

SpecWorker == InitWorker /\ [][NextWorker]_vars

\* C29: the worker is stopped or running.  Stopped, it has no run goroutine;
\* running with no Stop under way, also after an earlier Stop, it has exactly
\* one, which stays in its loop (the stop channel is open); there is never
\* more than one run goroutine, whatever Start calls are made, and no call
\* brings the process down.
C29_WorkerStateMachine ==
    /\ ~wk.panic
    /\ wk.loops <= 1
    /\ ~wk.running => wk.loops = 0
    /\ (wk.running /\ \A c \in Callers : wk.call[c] = "idle") =>
          /\ wk.loops = 1
          /\ wk.stopCh = "open"

(***************************************************************************)
(* The shutdown of func main (cmd/server/main.go), from the signal to the  *)
(* deferred Close calls, with the goroutines it stops: Hub.Run, the Kafka  *)
(* consumer (main.kafka tells whether one was started), the sync worker,   *)
(* and the HTTP server, which serves SubmitScore requests.                 *)
(***************************************************************************)
MainFrame == UNCHANGED <<storeVars, engineVars, readVars, syncVars, adm, nadm, pre, tc, batch>>

HubButCancelled == <<allClients, clients, broadcast, subscribe, unsubscribe, send,
                     sendClosed, hubRunning, panicked, cl, ninbound, nextId, offered,
                     processed, delivered>>

MainGoto(pc) == main' = [main EXCEPT !.pc = pc]

\* <-quit
MainSignal ==
    /\ main.pc = "serving"
    /\ MainGoto("HubStop")
    /\ UNCHANGED <<hubVars, kc, wk>>
    /\ MainFrame

\* wsHub.Stop(), which cancels the hub's context and returns
MainHubStop ==
    /\ main.pc = "HubStop"
    /\ hubCancelled' = TRUE
    /\ MainGoto(IF main.kafka THEN "KafkaStop" ELSE "SyncWorkerStop")
    /\ UNCHANGED <<HubButCancelled, kc, wk>>
    /\ MainFrame

\* kafkaConsumer.Stop(): c.cancel()
MainKafkaStop ==
    /\ main.pc = "KafkaStop"
    /\ MainGoto("KafkaWait")
    /\ UNCHANGED <<hubVars, kc, wk>>
    /\ MainFrame

\* the session of the cancelled consumer ends: ConsumeClaim takes its Done case
KafkaSessionDone ==
    /\ main.pc = "KafkaWait"
    /\ ConsumeClaimDone

\* kafkaConsumer.Stop(): c.wg.Wait() and consumerGroup.Close()
MainKafkaWait ==
    /\ main.pc = "KafkaWait"
    /\ kc.pc = "returned"
    /\ MainGoto("SyncWorkerStop")
    /\ UNCHANGED <<hubVars, kc, wk>>
    /\ MainFrame

\* syncWorker.Stop(), called once
MainSyncWorkerStop ==
    /\ main.pc = "SyncWorkerStop"
    /\ wk.stopped = 0
    /\ \/ WorkerStopCheck(1)
       \/ WorkerStopClose(1)
       \/ WorkerStopWait(1)

\* syncWorker.Stop() has returned
MainSyncWorkerStopped ==
    /\ main.pc = "SyncWorkerStop"
    /\ wk.stopped > 0
    /\ MainGoto("ServerShutdown")
    /\ UNCHANGED <<hubVars, kc, wk>>
    /\ MainFrame

\* server.Shutdown: the listeners are closed
MainServerShutdown ==
    /\ main.pc = "ServerShutdown"
    /\ main' = [main EXCEPT !.pc = "ShutdownWait", !.accepting = FALSE]
    /\ UNCHANGED <<hubVars, kc, wk>>
    /\ MainFrame

\* server.Shutdown returns when the requests under way are answered
MainServerStopped ==
    /\ main.pc = "ShutdownWait"
    /\ \A p \in Procs : rq[p].pc = "idle"
    /\ MainGoto("return")
    /\ UNCHANGED <<hubVars, kc, wk>>
    /\ MainFrame

\* main returns: the deferred postgresRepo.Close(), then redisService.Close()
MainClose ==
    /\ \/ /\ main.pc = "return"
          /\ main' = [main EXCEPT !.pc = "closing", !.closed = Append(@, "postgres")]
       \/ /\ main.pc = "closing"
          /\ main' = [main EXCEPT !.pc = "exited", !.closed = Append(@, "redis")]
    /\ UNCHANGED <<hubVars, kc, wk>>
    /\ MainFrame

\* the HTTP server accepts a POST /scores while it listens
HttpServe(self, submission) ==
    /\ main.accepting
    /\ SubmitScoreCall(self, submission)

\* when the signal comes: one leaderboard, a score that the sync worker has
\* not written to PostgreSQL yet, the sync worker started or (sync.enabled
\* unset) not, a Kafka consumer started or not
InitShutdown ==
    /\ leaderboards = Put(EmptyMap, 1, DefaultConfig)
    /\ player_scores = NoScores
    /\ score_events = <<>>
    /\ zset = [NoScores EXCEPT ![1] = Put(EmptyMap, 1, 1)]
    /\ meta = leaderboards
    /\ EngineIdle
    /\ reply = NoReply
    /\ HubFresh
    /\ sw = SyncIdle
    /\ adm = [a \in Admins |-> AdmIdle] /\ nadm = 0 /\ pre = [a \in Admins |-> <<>>]
    /\ tc = TcIdle
    /\ batch = [p \in Procs |-> BatchIdle]
    /\ kc = KcIdle
    /\ wk \in {WkNew, [WkNew EXCEPT !.running = TRUE, !.loops = 1]}
    /\ main \in {[MainServing EXCEPT !.kafka = k] : k \in BOOLEAN}

ShutdownSubmissions == {[lb |-> 1, player |-> 1, score |-> 2]}

NextShutdown ==
    \/ MainSignal
    \/ MainHubStop
    \/ MainKafkaStop
    \/ KafkaSessionDone
    \/ MainKafkaWait
    \/ MainSyncWorkerStop
    \/ MainSyncWorkerStopped
    \/ MainServerShutdown
    \/ MainServerStopped
    \/ MainClose
    \/ HubRunReturn
    \/ RunTick
    \/ RunReturn
    \/ SyncAllStep
    \/ \E submission \in ShutdownSubmissions : HttpServe(1, submission)
    \/ SubmitScoreGetLeaderboard(1)
    \/ SubmitScoreReplace(1)
    \/ SubmitScoreRecordEvent(1)

SpecShutdown == InitShutdown /\ [][NextShutdown]_vars

\* the steps of the shutdown that have begun, and those that are over
RequestsStopped == ~main.accepting /\ \A p \in Procs : rq[p].pc = "idle"
HubStopBegun == hubCancelled
HubStopped == ~hubRunning
KafkaStopBegun == main.kafka /\ main.pc \notin {"serving", "HubStop", "KafkaStop"}
KafkaStopped == main.kafka => kc.pc = "returned"
WorkerStopBegun == wk.ncalls > 0
WorkerStopped == wk.stopped > 0 /\ wk.loops = 0
StoresClosing == main.closed # <<>>

\* C25: on shutdown every step begins only when the one before it is over:
\* the server has stopped accepting requests before the hub is stopped, the
\* hub's Run has returned before the Kafka consumer is stopped, the consumer
\* has returned (its batch flushed) before the sync worker is stopped, and
\* the sync worker's loop has ended before a store is closed.
C25_ShutdownOrder ==
    /\ HubStopBegun => RequestsStopped
    /\ KafkaStopBegun => HubStopped
    /\ WorkerStopBegun => HubStopped /\ KafkaStopped
    /\ StoresClosing => WorkerStopped /\ RequestsStopped

SpecShutdownFair ==
    /\ SpecShutdown
    /\ WF_vars(MainSyncWorkerStop)
    /\ WF_vars(RunReturn)
    /\ WF_vars(SyncAllStep)

\* C30: Stop returns only when the run goroutine is gone: then no syncAll is
\* under way, one that was under way when Stop closed the stop channel has
\* run to its end, and none begins or goes on afterwards; Stop on a worker
\* that is not running returns in its first step, without closing or waiting;
\* and a Stop that was called returns.
C30_StopWaitsForLoop ==
    /\ [](wk.stopped > 0 =>
             /\ wk.loops = 0
             /\ tc.pc = "idle"
             /\ wk.during => tc.cycles > 0)
    /\ [][wk.stopped > 0 => tc' = tc]_vars
    /\ [][(wk.ncalls' # wk.ncalls /\ ~wk.running) =>
             /\ wk.stopped' = wk.stopped + 1
             /\ wk.call' = wk.call /\ wk.stopCh' = wk.stopCh]_vars
    /\ (wk.ncalls > 0) ~> (wk.stopped > 0)

\* Stop has returned on a worker whose syncAll was under way when the stop
\* channel was closed, and the cycle has written the score to PostgreSQL
C30_Witness ==
    /\ wk.stopped = 1 /\ wk.during
    /\ wk.doneCh = "closed" /\ ~wk.running
    /\ tc.cycles = 1
    /\ player_scores[1] = zset[1] /\ DOMAIN zset[1] # {}

(***************************************************************************)
(* DeleteLeaderboard of a leaderboard that has no row.                     *)
(***************************************************************************)
\* C26: a DeleteLeaderboard for an id without a row in leaderboards, with no
\* store failing, is answered 404 with "leaderboard not found", and the
\* configurations and the scores of the other leaderboards are as before.
C26_DeleteUnknownNotFound ==
    \A lb \in LBIds :
        (/\ Called("DeleteLeaderboard", lb)
         /\ lb \notin DOMAIN pre[1].leaderboards
         /\ ~ErrorsIs(adm[1].err, ErrDriver)) =>
            /\ adm[1].resp = Response(StatusNotFound, ErrLeaderboardNotFound)
            /\ leaderboards = pre[1].leaderboards
            /\ \A other \in LBIds \ {lb} :
                  /\ zset[other] = pre[1].zset[other]
                  /\ player_scores[other] = pre[1].player_scores[other]

(***************************************************************************)
(* A restart: the process of the shutdown above has exited and a new one   *)
(* runs main up to the startup recovery.  PostgreSQL and Redis keep what   *)
(* they hold; the records of the goroutines are those of the old process.  *)
(***************************************************************************)
\* a new process: main reaches syncWorker.SyncAllFromDatabase
MainRestart ==
    /\ main.pc = "exited"
    /\ main' = [main EXCEPT !.pc = "recovery", !.closed = <<>>]
    /\ UNCHANGED <<hubVars, kc, wk>>
    /\ MainFrame

\* SyncAllFromDatabase of the new process
MainSyncAllFromDatabase ==
    /\ main.pc = "recovery"
    /\ NextRecover

NextRestart ==
    \/ NextShutdown
    \/ MainRestart
    \/ MainSyncAllFromDatabase

SpecRestart == InitShutdown /\ [][NextRestart]_vars

\* C27: when the startup recovery after a restart has completed without a
\* failure, every score that SubmitScore accepted before the shutdown is the
\* score Redis reports for its player.
C27_NoLossAcrossRestart ==
    (main.pc = "recovery" /\ sw.pc = "done" /\ ~sw.failed) =>
        \A submission \in BagToSet(accepted) :
            ZScore(zset[submission.lb], submission.player) = <<submission.score>>

(***************************************************************************)
(* The subscription sets of the hub.                                       *)
(***************************************************************************)
\* C28: every client in a set of clients is in allClients and its send
\* channel is open, so that no broadcast sends on a closed channel.
C28_SubscribersRegisteredAndOpen ==
    /\ \A lb \in DOMAIN clients : \A c \in clients[lb] :
          c \in allClients /\ ~sendClosed[c]
    /\ ~panicked

(***************************************************************************)
(* The startup of func main after the migrations: the recovery, then the   *)
(* sync worker, the Kafka consumer and the HTTP server, in this order.     *)
(***************************************************************************)
MainStarting == [pc |-> "recovery", accepting |-> FALSE, kafka |-> FALSE, closed |-> <<>>]

RecoveryUnderWay(s) == TRUE

\* syncWorker.SyncAllFromDatabase(ctx) is called by main itself: main goes on
\* when the call has returned, with an error or without
RecoveryReturned(s) == s.pc = "done"

\* SyncAllFromDatabase has returned; main is at "if cfg.Sync.Enabled"
MainRecovered ==
    /\ main.pc = "recovery"
    /\ RecoveryReturned(sw)
    /\ MainGoto("SyncWorkerStart")
    /\ UNCHANGED <<hubVars, kc, wk>>
    /\ MainFrame

\* syncWorker.Start(ctx), when sync.enabled is set
MainSyncWorkerStart ==
    /\ main.pc = "SyncWorkerStart"
    /\ wk.ncalls = 0
    /\ WorkerStart(1)

\* Start has returned, or sync.enabled is unset; main is at "if cfg.Kafka.Enabled"
MainSyncWorkerStarted ==
    /\ main.pc = "SyncWorkerStart"
    /\ MainGoto("KafkaStart")
    /\ UNCHANGED <<hubVars, kc, wk>>
    /\ MainFrame

\* kafkaConsumer.Start(), when kafka.enabled is set and the consumer could be
\* created and started
MainKafkaStart ==
    /\ main.pc = "KafkaStart"
    /\ \E started \in BOOLEAN : main' = [main EXCEPT !.pc = "Listen", !.kafka = started]
    /\ UNCHANGED <<hubVars, kc, wk>>
    /\ MainFrame

\* go server.ListenAndServe(); main waits for the signal
MainListen ==
    /\ main.pc = "Listen"
    /\ main' = [main EXCEPT !.pc = "serving", !.accepting = TRUE]
    /\ UNCHANGED <<hubVars, kc, wk>>
    /\ MainFrame

\* the HTTP server answers a GET .../top while it listens
HttpServeTop(lb, n) ==
    /\ main.accepting
    /\ ReadTopN(lb, n)

\* a row of player_scores or none, and a Redis that is empty or holds an
\* older score
InitStartup ==
    /\ leaderboards = Put(EmptyMap, 1, DefaultConfig)
    /\ \E rows \in Maps({1}, {1}) : player_scores = [NoScores EXCEPT ![1] = rows]
    /\ score_events = <<>>
    /\ \E z \in Maps({1}, {-1}) : zset = [NoScores EXCEPT ![1] = z]
    /\ meta = leaderboards
    /\ EngineIdle
    /\ reply = NoReply
    /\ HubFresh
    /\ sw = SyncIdle
    /\ adm = [a \in Admins |-> AdmIdle] /\ nadm = 0 /\ pre = [a \in Admins |-> <<>>]
    /\ tc = TcIdle
    /\ batch = [p \in Procs |-> BatchIdle]
    /\ kc = KcIdle
    /\ wk = WkNew
    /\ main = MainStarting

NextStartup ==
    \/ MainSyncAllFromDatabase
    \/ MainRecovered
    \/ MainSyncWorkerStart
    \/ MainSyncWorkerStarted
    \/ MainKafkaStart
    \/ MainListen
    \/ RunTick
    \/ SyncAllStep
    \/ \E submission \in ShutdownSubmissions : HttpServe(1, submission)
    \/ SubmitScoreGetLeaderboard(1)
    \/ SubmitScoreReplace(1)
    \/ SubmitScoreRecordEvent(1)
    \/ HttpServeTop(1, 1)

SpecStartup == InitStartup /\ [][NextStartup]_vars

\* C31: while SyncAllFromDatabase has not returned, the sync worker has no
\* loop and no cycle, no Kafka consumer is started, the HTTP server does not
\* listen, and no submit and no read has been served.
C31_RecoveryBeforeServing ==
    sw.pc # "done" =>
        /\ ~wk.running /\ wk.loops = 0 /\ tc = TcIdle
        /\ ~main.kafka
        /\ ~main.accepting
        /\ nsub = 0 /\ \A p \in Procs : rq[p].pc = "idle"
        /\ reply = NoReply

C31_Witness ==
    /\ sw.pc = "done" /\ ~sw.failed
    /\ zset[1] = Put(EmptyMap, 1, 2)
    /\ player_scores[1] = Put(EmptyMap, 1, 2)
    /\ BagToSet(accepted) # {}
    /\ tc.cycles > 0
    /\ main.kafka
    /\ reply.op = "top_n"

(***************************************************************************)
(* One cycle of the sync worker with nothing else writing.                 *)
(***************************************************************************)
\* two leaderboards with scores in Redis, and player_scores empty or holding
\* older rows
InitCycle ==
    /\ leaderboards = [lb \in LBIds |-> DefaultConfig]
    /\ \E rows \in {EmptyMap, [p \in {1, 4} |-> 0]} :
          player_scores = [NoScores EXCEPT ![1] = rows]
    /\ \E z \in Maps({1, 2, 3}, {1}) :
          zset = [NoScores EXCEPT ![1] = z, ![2] = [p \in {1, 2} |-> 2]]
    /\ score_events = <<>>
    /\ meta = leaderboards
    /\ EngineIdle
    /\ reply = NoReply
    /\ HubFresh
    /\ sw = SyncIdle
    /\ OpsIdle

NextCycle ==
    \/ SyncAllListLeaderboards
    \/ SyncToDatabaseGetAllScores
    \/ SyncToDatabaseBatchUpsertScores

SpecCycle == InitCycle /\ [][NextCycle]_vars

\* the BatchUpsertScores calls of the cycle that is over, and those for one
\* leaderboard
CycleCalls == SelectSeq(tc.calls, LAMBDA call : call.cycle = tc.cycles - 1)
CallsFor(lb) == SelectSeq(CycleCalls, LAMBDA call : call.lb = lb)

\* C32: with nothing else writing, when a cycle is over, every
\* BatchUpsertScores call it made had between 1 and batchSize players, and for
\* every leaderboard it listed whose SyncToDatabase returned no error, whatever
\* happened to the other leaderboards, the calls contain every Redis entry
\* exactly once and player_scores has the Redis score of every entry.
C32_SyncToColdInChunks ==
    (tc.pc = "idle" /\ tc.cycles > 0) =>
        /\ \A i \in 1..Len(CycleCalls) :
              Cardinality(CycleCalls[i].players) \in 1..SyncBatchSize
        /\ \A k \in 1..Len(tc.listed) :
              LET lb == tc.listed[k]
                  calls == CallsFor(lb)
              IN  lb \notin tc.errors =>
                     /\ \A i, j \in 1..Len(calls) :
                           i # j => calls[i].players \cap calls[j].players = {}
                     /\ UNION {calls[i].players : i \in 1..Len(calls)} = DOMAIN zset[lb]
                     /\ \A p \in DOMAIN zset[lb] :
                           /\ p \in DOMAIN player_scores[lb]
                           /\ player_scores[lb][p] = zset[lb][p]

\* the cycle failed on leaderboard 1 after its first batch and went on to
\* sync leaderboard 2 in two batches
C32_Witness ==
    /\ tc.pc = "idle" /\ tc.cycles > 0
    /\ tc.listed = <<1, 2>>
    /\ tc.errors = {1}
    /\ Len(CallsFor(1)) = 2
    /\ Len(CallsFor(2)) = 2
    /\ player_scores[2] = zset[2]

(***************************************************************************)
(* The sync worker's cycles while SubmitScore calls write to Redis.        *)
(***************************************************************************)
\* ticks of the ticker in these runs
MaxReconcileCycles == 2

\* run: case <-ticker.C
ReconcileTick ==
    /\ tc.cycles < MaxReconcileCycles
    /\ SyncAllBegin

ReconcileSubmissions == [lb : {1}, player : {1, 2}, score : {2}]

NextReconcile ==
    \/ ReconcileTick
    \/ SyncToDatabaseGetAllScores
    \/ SyncToDatabaseBatchUpsertScores
    \/ \E submission \in ReconcileSubmissions : SubmitScoreCall(1, submission)
    \/ SubmitScoreGetLeaderboard(1)
    \/ SubmitScoreReplace(1)
    \/ SubmitScoreRecordEvent(1)

SpecReconcile == InitWorker /\ [][NextReconcile]_vars

\* the ticker keeps firing and a cycle that has begun goes on
SpecReconcileFair ==
    /\ SpecReconcile
    /\ WF_vars(ReconcileTick)
    /\ WF_vars(SyncToDatabaseGetAllScores)
    /\ WF_vars(SyncToDatabaseBatchUpsertScores)

\* player_scores has the Redis score of every Redis entry
ColdEqualsHot ==
    \A lb \in LBIds : \A p \in DOMAIN zset[lb] :
        /\ p \in DOMAIN player_scores[lb]
        /\ player_scores[lb][p] = zset[lb][p]

\* no write is under way and none will come
WritesStopped == nsub = MaxSubmits /\ \A p \in Procs : rq[p].pc = "idle"

\* the cycle that is over had a store call that failed
CycleFailed == tc.errors # {} \/ tc.listed = <<>>

\* C33: when the writes have stopped and the ticker fires once more, the
\* cycle it starts either has a store call that fails or leaves player_scores
\* with the Redis score of every Redis entry, those written during an earlier
\* cycle after its snapshot included.
C33_NextCycleCatchesUp ==
    \A c \in 0..(MaxReconcileCycles - 1) :
        (WritesStopped /\ tc.pc = "idle" /\ tc.cycles = c)
            ~> \/ ColdEqualsHot
               \/ tc.pc = "idle" /\ tc.cycles = c + 1 /\ CycleFailed

\* player 2 was written when the first cycle had its snapshot, and the second
\* cycle has written it
C33_Witness ==
    /\ WritesStopped
    /\ tc.pc = "idle" /\ tc.cycles = 2 /\ ~CycleFailed
    /\ ColdEqualsHot
    /\ 2 \in DOMAIN zset[1]
    /\ \E i \in 1..Len(tc.calls) : tc.calls[i].cycle = 0
    /\ \A i \in 1..Len(tc.calls) : tc.calls[i].cycle = 0 => tc.calls[i].players = {1}
    /\ \E i \in 1..Len(tc.calls) : tc.calls[i].cycle = 1 /\ tc.calls[i].players = {2}

(***************************************************************************)
(* The batch of ConsumeClaim.                                              *)
(***************************************************************************)
\* a step of ConsumeClaim at its select that takes the named case with a
\* batch that is not empty
KcTakes(case) ==
    /\ kc.pc = "select"
    /\ kc.batch # <<>>
    /\ kc'.pc # "select" \/ kc'.consumed # kc.consumed
    /\ kc'.case = case

\* C34: the batch of ConsumeClaim never holds more than BatchSize
\* submissions, and fewer whenever ConsumeClaim is at its select, a batch that
\* has reached BatchSize being passed to SubmitScoreBatch in the step that
\* appends its last message; the timer and the end of the session pass a batch
\* that is not empty to SubmitScoreBatch; no SubmitScoreBatch call gets an
\* empty batch; the batch is empty when a SubmitScoreBatch call has returned
\* and when ConsumeClaim has returned; and no marked offset is taken back.
C34_BatchBoundedAndFlushed ==
    /\ [](/\ Len(kc.batch) <= KafkaBatchSize
          /\ kc.pc = "select" => Len(kc.batch) < KafkaBatchSize
          /\ kc.pc = "returned" => kc.batch = <<>>
          /\ \A i \in 1..Len(kc.calls) : Len(kc.calls[i]) \in 1..KafkaBatchSize)
    /\ [][(KcTakes("timer") \/ KcTakes("done") \/ KcTakes("closed")) =>
             /\ kc'.pc = "SubmitScoreBatch"
             /\ kc'.calls = Append(kc.calls, kc.batch)]_vars
    /\ [][(kc.pc = "SubmitScoreBatch" /\ kc'.pc # "SubmitScoreBatch") =>
             kc'.batch = <<>>]_vars
    /\ [][/\ Len(kc'.marked) >= Len(kc.marked)
          /\ SubSeq(kc'.marked, 1, Len(kc.marked)) = kc.marked]_vars

\* a full batch and then a shorter one, passed on by the timer, have been
\* submitted and the batch is empty
C34_Witness ==
    /\ kc.pc = "select"
    /\ kc.case = "timer"
    /\ kc.batch = <<>>
    /\ Len(kc.calls) = 2
    /\ Len(kc.calls[1]) = KafkaBatchSize
    /\ Len(kc.calls[2]) = 1
    /\ Len(kc.marked) > KafkaBatchSize + 1

(***************************************************************************)
(* Consumer.Start and the goroutine it starts, which calls                 *)
(* consumerGroup.Consume in a loop.  Channels are numbered as they are     *)
(* made; kc.start.ready is the field c.ready, kc.start.closed the channels *)
(* that are closed.                                                        *)
(***************************************************************************)
\* Consume calls of one behaviour
MaxConsumeAttempts == 3

KsFrame == UNCHANGED <<storeVars, engineVars, readVars, hubVars, syncVars,
                       adm, nadm, pre, tc, batch, wk, main>>

KsGoto(changes) == kc' = [kc EXCEPT !.start = changes]

\* Start: go func() { for { ... } }()
KafkaStartCall ==
    /\ kc.start.pc = "idle"
    /\ KsGoto([kc.start EXCEPT !.pc = "called", !.loop = "top"])
    /\ KsFrame

\* Start: the operand of <-c.ready is evaluated, with no synchronisation with
\* the goroutine that assigns c.ready
KafkaStartReadReady ==
    /\ kc.start.pc = "called"
    /\ KsGoto([kc.start EXCEPT !.pc = "waiting", !.waits = kc.start.ready])
    /\ KsFrame

\* Start: the receive from that channel is over when it is closed; Start
\* starts the goroutine of the errors and returns nil
KafkaStartReturn ==
    /\ kc.start.pc = "waiting"
    /\ kc.start.waits \in kc.start.closed
    /\ KsGoto([kc.start EXCEPT !.pc = "returned"])
    /\ KsFrame

\* the loop: handler := &consumerGroupHandler{ready: c.ready}, and Consume is
\* called
ConsumeCall ==
    /\ kc.start.loop = "top"
    /\ kc.start.attempts < MaxConsumeAttempts
    /\ KsGoto([kc.start EXCEPT !.loop = "consume", !.handler = kc.start.ready,
                               !.attempts = @ + 1])
    /\ KsFrame

\* Consume returns an error before a session is set up
ConsumeFails ==
    /\ kc.start.loop = "consume"
    /\ KsGoto([kc.start EXCEPT !.loop = "after"])
    /\ KsFrame

\* Setup of the session: close(h.ready)
ConsumeSetup ==
    /\ kc.start.loop = "consume"
    /\ KsGoto([kc.start EXCEPT !.loop = "session", !.closed = @ \cup {kc.start.handler},
                               !.setups = @ + 1])
    /\ KsFrame

\* the session ends (a rebalance, an error, the context cancelled) and
\* Consume returns
ConsumeReturns ==
    /\ kc.start.loop = "session"
    /\ KsGoto([kc.start EXCEPT !.loop = "after"])
    /\ KsFrame

\* the loop after Consume: return when the context is cancelled, else
\* c.ready = make(chan bool) and the next round
ConsumeLoop ==
    /\ kc.start.loop = "after"
    /\ KsGoto(IF kc.start.cancelled
              THEN [kc.start EXCEPT !.loop = "returned"]
              ELSE [kc.start EXCEPT !.loop = "top", !.ready = kc.start.attempts])
    /\ KsFrame

\* Stop: c.cancel(), which ends a session
KafkaStopCancel ==
    /\ kc.start.pc = "returned"
    /\ ~kc.start.cancelled
    /\ KsGoto([kc.start EXCEPT !.cancelled = TRUE,
                               !.loop = IF @ = "session" THEN "after" ELSE @])
    /\ KsFrame

NextKafkaStart ==
    \/ KafkaStartCall
    \/ KafkaStartReadReady
    \/ KafkaStartReturn
    \/ ConsumeCall
    \/ ConsumeFails
    \/ ConsumeSetup
    \/ ConsumeReturns
    \/ ConsumeLoop
    \/ KafkaStopCancel

SpecKafkaStart == InitKafka /\ [][NextKafkaStart]_vars

\* C35: whatever number of Consume calls returned an error before, while a
\* session whose Setup has completed exists, Start is not blocked: the channel
\* it waits for is closed, so that it returns.
C35_StartReturnsOnFirstSetup ==
    (kc.start.pc = "waiting" /\ kc.start.loop = "session") =>
        kc.start.waits \in kc.start.closed

(***************************************************************************)
(* The answers to inbound client messages.                                 *)
(***************************************************************************)
\* the step posts a request for a leaderboard to a channel of the hub and
\* leaves client c about to send the acknowledgement action
Requests(c, ch, action) ==
    /\ ch' # ch
    /\ ch' = Append(ch, Request(c, cl'[c].ack.lb))
    /\ cl'[c].ack.lb # EmptyId
    /\ cl'[c].rp = "sendAck"
    /\ cl'[c].ack = Ack(action, cl'[c].ack.lb)
    /\ send' = send

\* the step puts message m into the send channel of c, or the channel is
\* full, and leaves the channels of the hub and of the other clients alone
Answers(c, m) ==
    /\ send' = [send EXCEPT ![c] = TrySend(@, SendCap, m)]
    /\ Len(send[c]) < SendCap => send'[c] # send[c]
    /\ subscribe' = subscribe /\ unsubscribe' = unsubscribe /\ clients' = clients

\* C36: a step of readPump that handles an inbound message either posts a
\* subscribe or an unsubscribe request for a non-empty leaderboard id to the
\* hub and goes on to send the acknowledgement, or sends an error message or
\* a pong to its own client and leaves the subscriptions alone; and the
\* acknowledgement is then offered to that client's send channel.
C36_InboundAnswered ==
    /\ [][ninbound' # ninbound =>
             \E c \in Clients :
                \/ Requests(c, subscribe, "subscribed") /\ unsubscribe' = unsubscribe
                \/ Requests(c, unsubscribe, "unsubscribed") /\ subscribe' = subscribe
                \/ Answers(c, ErrorMessage)
                \/ Answers(c, Pong)]_vars
    /\ [][\A c \in Clients :
             (cl[c].rp = "sendAck" /\ cl'[c].rp # "sendAck") =>
                 send'[c] = TrySend(send[c], SendCap, cl[c].ack)]_vars

(***************************************************************************)
(* The hub after Stop.                                                     *)
(***************************************************************************)
\* C37: when Run has returned after Hub.Stop, the send channel of every
\* registered client is closed, so that its writePump returns, and no client
\* is held in a call of Unregister, which only Run can receive.
C37_StopClosesQueues ==
    ~hubRunning =>
        /\ \A c \in allClients : sendClosed[c]
        /\ \A c \in Clients : cl[c].rp # "unregistering"

(***************************************************************************)
(* The acknowledgement of a subscribe and the subscription itself.         *)
(***************************************************************************)
\* the messages client c was sent: those in its send channel, those its
\* writePump holds, and those written to the connection
SentTo(c) ==
    {send[c][i] : i \in 1..Len(send[c])}
        \cup {cl[c].frame[i] : i \in 1..Len(cl[c].frame)}
        \cup {delivered[c][i] : i \in 1..Len(delivered[c])}

\* client c has asked to leave leaderboard lb
Unsubscribing(c, lb) ==
    \/ \E i \in 1..Len(unsubscribe) : unsubscribe[i] = Request(c, lb)
    \/ cl[c].ack = Ack("unsubscribed", lb)
    \/ Ack("unsubscribed", lb) \in SentTo(c)

\* C38: a registered client that was sent the acknowledgement "subscribed"
\* for a leaderboard, and has not asked to leave it, is in the clients of that
\* leaderboard, so that a broadcast posted from then on reaches it.
C38_AckMeansSubscribed ==
    \A c \in allClients : \A lb \in HubLBs :
        (Ack("subscribed", lb) \in SentTo(c) /\ ~Unsubscribing(c, lb)) =>
            /\ lb \in DOMAIN clients
            /\ c \in clients[lb]

(***************************************************************************)
(* Two CreateLeaderboard requests for one id, served by two tasks.         *)
(***************************************************************************)
\* requests for leaderboard 2, which has no row
CreateTwice == {req \in CreateRequests : req.id = 2 /\ req.name = "n"}

NextCreate ==
    \/ \E a \in Admins, req \in CreateTwice : CreateLeaderboardExists(a, req)
    \/ \E a \in Admins : CreateLeaderboardPostgres(a)
    \/ \E a \in Admins : CreateLeaderboardMeta(a)

SpecCreate == InitAdmin /\ [][NextCreate]_vars

\* task a has answered a CreateLeaderboard with this status
Created(a, status) ==
    adm[a].pc = "idle" /\ adm[a].op = "CreateLeaderboard" /\ adm[a].resp.status = status

\* C39: when two CreateLeaderboard calls for one id have both been answered
\* and no store call failed, one is answered 201 with its configuration, which
\* is the row of the leaderboard, and the other 409 "leaderboard already
\* exists".
C39_ConcurrentCreateOneWins ==
    (/\ \A a \in Admins : adm[a].pc = "idle" /\ adm[a].op = "CreateLeaderboard"
     /\ \A a \in Admins : ~ErrorsIs(adm[a].err, ErrDriver)) =>
        \E a \in Admins : \E b \in Admins \ {a} :
            /\ Created(a, StatusCreated)
            /\ adm[a].resp.config = adm[a].config
            /\ 2 \in DOMAIN leaderboards
            /\ leaderboards[2] = adm[a].config
            /\ adm[b].resp = Response(StatusConflict, ErrLeaderboardExists)

(***************************************************************************)
(* What SubmitScore changes, beside two other writers of the stores: the   *)
(* sync worker's cycle and RemovePlayer.                                   *)
(***************************************************************************)
\* leaderboard 1 with any update mode, two players in Redis, and in
\* player_scores the row of an earlier cycle
InitFrame ==
    /\ \E cfg \in Configs : cfg.sort_order = "desc" /\ leaderboards = Put(EmptyMap, 1, cfg)
    /\ zset = [NoScores EXCEPT ![1] = [p \in {1, 2} |-> IF p = 1 THEN 3 ELSE 1]]
    /\ player_scores = [NoScores EXCEPT ![1] = Put(EmptyMap, 1, 3)]
    /\ score_events = <<>>
    /\ meta = leaderboards
    /\ EngineIdle
    /\ reply = NoReply
    /\ HubFresh
    /\ sw = SyncIdle
    /\ OpsIdle

FrameSubmissions == {[lb |-> 1, player |-> 1, score |-> 2]}

NextFrame ==
    \/ \E submission \in FrameSubmissions : SubmitScoreCall(1, submission)
    \/ SubmitScoreGetLeaderboard(1)
    \/ SubmitScoreReplace(1)
    \/ SubmitScoreIncrement(1)
    \/ SubmitScoreBestRead(1)
    \/ SubmitScoreBestWrite(1)
    \/ SubmitScoreRecordEvent(1)
    \/ SyncAllListLeaderboards
    \/ SyncToDatabaseGetAllScores
    \/ SyncToDatabaseBatchUpsertScores
    \/ RemovePlayerRedis(1, 1, 2)
    \/ RemovePlayerPostgres(1)

SpecFrame == InitFrame /\ [][NextFrame]_vars

\* a step of the SubmitScore call of task self leaves every Redis entry but
\* that of the submitted leaderboard and player as it is
OnlySubmittedEntry(self) ==
    \A lb \in LBIds : \A p \in (DOMAIN zset[lb]) \cup (DOMAIN zset'[lb]) :
        (lb # rq[self].sub.lb \/ p # rq[self].sub.player) =>
            ZScore(zset'[lb], p) = ZScore(zset[lb], p)

\* C40: every step of a SubmitScore call, in every update mode, leaves
\* player_scores, the leaderboards table, the Redis metadata and all Redis
\* entries but that of the submitted leaderboard and player unchanged, and
\* adds nothing to score_events or the one row of the submission; no call adds
\* more than one row; and with SubmitScore, the sync worker and RemovePlayer
\* at work, player_scores changes only in the sync worker's upsert and in
\* the DELETE of RemovePlayer.
C40_SubmitFrame ==
    /\ [][\A self \in Procs :
             rq'[self] # rq[self] =>
                 /\ player_scores' = player_scores
                 /\ leaderboards' = leaderboards
                 /\ meta' = meta
                 /\ OnlySubmittedEntry(self)
                 /\ \/ score_events' = score_events
                    \/ /\ rq[self].pc = "RecordEvent"
                       /\ score_events' = Append(score_events, EventOf(rq[self].sub))]_vars
    /\ [](Len(score_events) <= BagCardinality(accepted))
    /\ [][player_scores' # player_scores =>
             \/ tc.pc = "BatchUpsertScores"
             \/ adm[1].pc = "RemovePlayerPostgres"]_vars

\* an increment was accepted: the submitted player's entry has grown, the
\* other entry, the row of player_scores and the configuration are as they
\* were, and score_events has the row of the submission
C40_Witness ==
    /\ BagCardinality(accepted) = 1
    /\ 1 \in DOMAIN leaderboards /\ leaderboards[1].update_mode = "increment"
    /\ zset[1] = [p \in {1, 2} |-> IF p = 1 THEN 5 ELSE 1]
    /\ player_scores[1] = Put(EmptyMap, 1, 3)
    /\ score_events = <<EventOf([lb |-> 1, player |-> 1, score |-> 2])>>
    /\ rq[1].pc = "idle"
====
